---- MODULE Spec2Model ----
(***************************************************************************)
(* Soliton North Star Node: the hash-chained phase ledger.                 *)
(*                                                                         *)
(* Two programs of the repository keep such a ledger:                      *)
(*   "core"     - class SolitonRegistry                                    *)
(*                (src/src/core/trigonometric_fpt.ts)                      *)
(*   "server"   - the express handlers of the enhanced server over         *)
(*                SimplifiedTrigFPT (src/unnamed/part_000)                 *)
(* and the registry object of SimplifiedTrigFPT is also run by itself:     *)
(*   "registry" - SimplifiedTrigFPT.registry with logPhasePacket called    *)
(*                directly, and the server's read routes over it           *)
(* ("server" never gets as far as registry.logPhasePacket: its             *)
(* createPhasePacket calls this.computeTriad, which the instance lacks).   *)
(* The variable program says which of these runs; ledger, nodeStates and   *)
(* groupStates are the fields of its registry.                             *)
(*                                                                         *)
(* Numbers are fixed point.  Angles are held as a count of quarter turns   *)
(* (theta = q * PI/2) and converted to milliradians where the code does    *)
(* arithmetic on them; amplitudes, triads and vitality are in thousandths. *)
(* A JS number that may be non-finite is a pair <<"num", n>> or            *)
(* <<"inf", +1/-1>>; JSON turns the latter into <<"null", 0>>.             *)
(* SHA-256 is modelled as an injective function of the string it digests:  *)
(* a digest is <<"sha256", canonical>>.                                    *)
(***************************************************************************)
EXTENDS Integers, Sequences, FiniteSets, TLC

\* ------------------------------------------------------------------ bounds
\* accepted observations explored per run, and clock readings after the first
MaxObservations == 2
MaxClock == 1

\* ------------------------------------------------------------ input values
Nodes == {"n1", "n2"}
Groups == {"g1", "g2"}
Undefined == "undefined"
\* Math.random().toString(36).substr(2, 9); the source may repeat a value
RandomSuffixes == {"r1"}
\* angles submitted, in quarter turns: 0 and PI/2
Quarters == {0, 1}
Snh(class, scope) == [neurodata_class |-> class, scope |-> scope]
\* the header submitted with every packet, and headers submitted with one packet
PacketHeaders == {Snh("aggregate", {"group_resonance_aggregate"})}
ProbeHeaders == {Snh("windowed", {"research_aggregate", "identity_linkage"}),
                 Snh("raw", {"group_resonance_aggregate"}),
                 Snh("aggregate", {}),
                 Snh("windowed", {"identity_linkage"})}
SessionId == "s1"
SnhDigest == "d1"

\* --------------------------------------------------------------- arithmetic
Abs(n) == IF n < 0 THEN -n ELSE n
Min(a, b) == IF a < b THEN a ELSE b
Max(a, b) == IF a > b THEN a ELSE b
\* JS division of two fixed point numbers truncates toward zero here
DivTrunc(a, b) == IF (a < 0) = (b < 0) THEN Abs(a) \div Abs(b)
                  ELSE -(Abs(a) \div Abs(b))

PiMilli == 3142
HalfPiMilli == 1571
TwoPiMilli == 2 * PiMilli
Unit == 1000

SinQ(q) == CASE q % 4 = 0 -> 0 [] q % 4 = 1 -> 1 [] q % 4 = 2 -> 0 [] OTHER -> -1
CosQ(q) == CASE q % 4 = 0 -> 1 [] q % 4 = 1 -> 0 [] q % 4 = 2 -> -1 [] OTHER -> 0

Finite(n) == <<"num", n>>
Infinity == <<"inf", 1>>
NegInfinity == <<"inf", -1>>
IsFinite(v) == v[1] = "num"
\* a non-finite value left out of the penalty
AbsOver10CappedFinite(v) == IF IsFinite(v) THEN Min(Abs(v[2]) \div 10, 300) ELSE 0
\* Math.abs(v) / 10 capped by Math.min(., 0.3): Infinity / 10 is Infinity
AbsOver10Capped(v) == IF IsFinite(v) THEN Min(Abs(v[2]) \div 10, 300) ELSE 300

\* --------------------------------------------- TrigonometricProcessor (core)
EpsilonBaseTenThousandths == 417

\* the sign test taken as sin_val >= 0
computeTangentNonNegative(q, amplitude) ==
    LET cos_val == amplitude * CosQ(q)
        sin_val == amplitude * SinQ(q)
    IN  IF cos_val = 0
        THEN (IF sin_val >= 0 THEN Infinity ELSE NegInfinity)
        ELSE Finite(DivTrunc(sin_val * Unit, cos_val))
\* Math.abs(cos_val) < 1e-10 is cos_val = 0 at a resolution of thousandths
computeTangent(q, amplitude) ==
    LET cos_val == amplitude * CosQ(q)
        sin_val == amplitude * SinQ(q)
    IN  IF cos_val = 0
        THEN (IF sin_val > 0 THEN Infinity ELSE NegInfinity)
        ELSE Finite(DivTrunc(sin_val * Unit, cos_val))

computeTriad(state) ==
    LET totalPhase == state.theta + state.phase
    IN  [jolt |-> state.amplitude * SinQ(totalPhase),
         observer |-> state.amplitude * CosQ(totalPhase),
         vhitzee |-> computeTangent(totalPhase, state.amplitude)]

computeVitality(triad) ==
    LET jolt_norm == Min(Abs(triad.jolt), Unit)
        observer_norm == Min(Abs(triad.observer), Unit)
        opposition_penalty == AbsOver10Capped(triad.vhitzee)
        vitality_raw == (600 * observer_norm + 400 * jolt_norm) \div Unit
                        - opposition_penalty
    IN  Max(500, Min(1500, vitality_raw + 500))

createPhasePacket(state, nodeId, sessionId, snhDigest, groupId, clock) ==
    LET triad == computeTriad(state)
        vitality == computeVitality(triad)
    IN  [packet_version |-> "1.0.0-trig",
         session_id |-> sessionId,
         node_id |-> nodeId,
         group_id |-> groupId,
         state |-> state,
         triad |-> triad,
         vitality |-> vitality,
         epsilon_d |-> (EpsilonBaseTenThousandths * vitality) \div 10,
         snh_digest |-> snhDigest,
         created_at |-> clock]

\* ------------------------------------------------------ JS Map and JSON
EmptyMap == [k \in {} |-> 0]
\* Map.set that keeps the value already stored under the key
MapSetIfAbsent(m, k, v) ==
    [x \in (DOMAIN m) \cup {k} |-> IF x \in DOMAIN m THEN m[x] ELSE v]
MapSet(m, k, v) == [x \in (DOMAIN m) \cup {k} |-> IF x = k THEN v ELSE m[x]]
MapHas(m, k) == k \in DOMAIN m
MapSize(m) == Cardinality(DOMAIN m)

\* JSON.stringify of a number: Infinity and -Infinity are written as null
JsonNumber(v) == IF v[1] = "inf" THEN <<"null", 0>> ELSE v
\* JSON.stringify of a payload object: a key whose value is undefined is
\* left out, a non-finite number is written as null
JsonStringify(obj) ==
    LET kept == {k \in DOMAIN obj :
                    ~(k = "group_id" /\ obj[k] = Undefined)}
    IN  [k \in kept |-> IF k = "vhitzee" THEN JsonNumber(obj[k]) ELSE obj[k]]

\* ------------------------------------------------------------ ledger entries
ZeroHash == <<"0000000000000000000000000000000000000000000000000000000000000000">>
EmptyString == <<>>

computeHash(entry) ==
    LET canonical == [entry_id |-> entry.entry_id,
                      entry_type |-> entry.entry_type,
                      created_at |-> entry.created_at,
                      payload |-> JsonStringify(entry.payload),
                      prev_hash |-> entry.prev_hash]
    IN  <<"sha256", canonical>>

\* entry.hash = this.computeHash(entry) on an entry built with hash: ''
WithHash(entry) == [entry EXCEPT !.hash = computeHash(entry)]

\* the hash of the first entry instead of the last
TailHashOfFirst(l) == l[1].hash
\* the tail as it was read before the latest append
TailHashStale(l) == l[Max(1, Len(l) - 1)].hash
TailHash(l) == l[Len(l)].hash
\* the server's ledger starts empty: '0'.repeat(64) stands in for the tail
TailHashOrZero(l) == IF Len(l) > 0 THEN l[Len(l)].hash ELSE ZeroHash

\* an assignment to the last slot instead of a push
PushOverTail(l, entry) ==
    IF Len(l) > 1 THEN [l EXCEPT ![Len(l)] = entry] ELSE Append(l, entry)
Push(l, entry) == Append(l, entry)

createGenesisEntry(clock) ==
    WithHash([entry_id |-> <<"genesis-north-001">>,
              entry_type |-> "PHASE_AGGREGATE",
              created_at |-> clock,
              payload |-> [message |-> "North Star Seed Node - Geometric Witness Activated",
                           designation |-> "North-001",
                           kernel |-> "Il7",
                           trigonometric |-> TRUE],
              prev_hash |-> ZeroHash,
              hash |-> EmptyString])

\* ---------------------------------------------------- circular statistics
RECURSIVE SumInts(_)
SumInts(f) ==
    IF DOMAIN f = {} THEN 0
    ELSE LET k == CHOOSE x \in DOMAIN f : TRUE
         IN  f[k] + SumInts([x \in (DOMAIN f) \ {k} |-> f[x]])

\* Math.atan of y/x for 0 <= y <= x, x > 0, in milliradians
AtanRatioMilli(y, x) ==
    CASE y = 0 -> 0
      [] y = x -> 785
      [] 3 * y = x -> 322
      [] 2 * y = x -> 464
      [] 3 * y = 2 * x -> 588
      [] 4 * y = x -> 245
      [] 4 * y = 3 * x -> 644
      [] OTHER -> (785 * y) \div x

\* Math.atan2(s, c) in milliradians, in (-PI, PI]
Atan2Milli(s, c) ==
    LET as == Abs(s)
        ac == Abs(c)
        a == IF as = 0 /\ ac = 0 THEN 0
             ELSE IF as <= ac THEN AtanRatioMilli(as, ac)
             ELSE HalfPiMilli - AtanRatioMilli(ac, as)
        angle == IF c >= 0 THEN a ELSE PiMilli - a
    IN  IF s < 0 THEN -angle ELSE angle

ThetaMilli(state) == state.theta * HalfPiMilli
SinTheta(state) == SinQ(state.theta)
CosTheta(state) == CosQ(state.theta)

MeanTheta(states) ==
    Atan2Milli(SumInts([n \in DOMAIN states |-> SinTheta(states[n])]),
               SumInts([n \in DOMAIN states |-> CosTheta(states[n])]))

\* Math.min(|diff|, 2*PI - |diff|) with diff = s.theta - mean_theta
Deviation(state, mean_theta) ==
    LET diff == ThetaMilli(state) - mean_theta
    IN  Min(Abs(diff), TwoPiMilli - Abs(diff))

\* the mean of the deviations, not of their squares, scaled alike
PhaseVarianceOfDeviations(states, mean_theta) ==
    (SumInts([n \in DOMAIN states |-> Deviation(states[n], mean_theta)]) * Unit)
        \div MapSize(states)
\* mean of the squared deviations, in millionths of rad^2
PhaseVariance(states, mean_theta) ==
    LET Sq(st) == Deviation(st, mean_theta) * Deviation(st, mean_theta)
    IN  SumInts([n \in DOMAIN states |-> Sq(states[n])]) \div MapSize(states)

\* 1.0 / (1.0 + phase_variance), in thousandths
SynchronyIndex(phase_variance) ==
    (Unit * Unit * Unit) \div (Unit * Unit + phase_variance)

\* the thresholds taken as inclusive
interpretCoherenceInclusive(synchrony) ==
    IF synchrony >= 800 THEN "COLLECTIVE_COIL_ENGAGED"
    ELSE IF synchrony >= 600 THEN "HIGH_COHERENCE"
    ELSE IF synchrony >= 400 THEN "MODERATE_COHERENCE"
    ELSE "LOW_COHERENCE"
interpretCoherence(synchrony) ==
    IF synchrony > 800 THEN "COLLECTIVE_COIL_ENGAGED"
    ELSE IF synchrony > 600 THEN "HIGH_COHERENCE"
    ELSE IF synchrony > 400 THEN "MODERATE_COHERENCE"
    ELSE "LOW_COHERENCE"

\* ------------------------------------------------------------------- state
\* input and output are the argument and the returned value of a function of
\* the processors or of the coherence arithmetic when it is called on its own
VARIABLES program, now, ledger, nodeStates, groupStates, emitted, broadcasts,
          result, input, output, ledgerFile, requests, chain, client
vars == <<program, now, ledger, nodeStates, groupStates, emitted, broadcasts,
          result, input, output, ledgerFile, requests, chain, client>>

\* the registry client's module has not been loaded
NoClient == [cachedBaseUrl |-> <<"null">>]

\* no function is being called on its own
NoCall == [fn |-> "none"]

\* observation entries a ledger holds (ids 'phase-...')
NumObservations(l) == Cardinality({i \in 1 .. Len(l) : l[i].entry_id[1] = "phase"})

\* JS array index i (0-based) of a ledger
At(l, i) == l[i + 1]
Indices(l) == 0 .. (Len(l) - 1)

\* ------------------------------------------------- SolitonRegistry (core)
AllowedScopes == {"group_resonance_aggregate", "research_aggregate"}

\* scope.every(...) instead of scope.some(...)
validateConsentEvery(snh) == \A s \in snh.scope : s \in AllowedScopes
validateConsent(snh) == \E s \in snh.scope : s \in AllowedScopes

\* the hash taken before prev_hash is filled in
PhaseEntryHashedEarly(packet, l, clock, rnd) ==
    [WithHash([entry_id |-> <<"phase", clock, rnd>>,
               entry_type |-> "PHASE_AGGREGATE",
               created_at |-> packet.created_at,
               payload |-> [session_id |-> packet.session_id,
                            node_id |-> packet.node_id,
                            group_id |-> packet.group_id,
                            theta |-> packet.state.theta,
                            amplitude |-> packet.state.amplitude,
                            phase |-> packet.state.phase,
                            jolt |-> packet.triad.jolt,
                            observer |-> packet.triad.observer,
                            vhitzee |-> packet.triad.vhitzee,
                            vitality |-> packet.vitality,
                            epsilon_d |-> packet.epsilon_d,
                            snh_digest |-> packet.snh_digest],
               prev_hash |-> EmptyString,
               hash |-> EmptyString])
     EXCEPT !.prev_hash = TailHash(l)]

PhaseEntry(packet, l, clock, rnd) ==
    WithHash([entry_id |-> <<"phase", clock, rnd>>,
              entry_type |-> "PHASE_AGGREGATE",
              created_at |-> packet.created_at,
              payload |-> [session_id |-> packet.session_id,
                           node_id |-> packet.node_id,
                           group_id |-> packet.group_id,
                           theta |-> packet.state.theta,
                           amplitude |-> packet.state.amplitude,
                           phase |-> packet.state.phase,
                           jolt |-> packet.triad.jolt,
                           observer |-> packet.triad.observer,
                           vhitzee |-> packet.triad.vhitzee,
                           vitality |-> packet.vitality,
                           epsilon_d |-> packet.epsilon_d,
                           snh_digest |-> packet.snh_digest],
              prev_hash |-> TailHash(l),
              hash |-> EmptyString])

\* groupNodes: the node states the coherence of a group is computed from
GroupNodes(states, groupId) == states
\* a filter on a membership that no field of the registry records
GroupMembersTracked(states, groupId) == [n \in {} |-> states[n]]
\* node_states: the entries of nodeStates kept by .filter(([_, state]) => true)
GroupMembers(states, groupId) == states

GroupStateOf(groupId, states, clock) ==
    LET groupNodes == GroupNodes(states, groupId)
        mean_theta == MeanTheta(groupNodes)
        phase_variance == PhaseVariance(groupNodes, mean_theta)
    IN  [group_id |-> groupId,
         node_states |-> GroupMembers(states, groupId),
         mean_theta |-> mean_theta,
         phase_variance |-> phase_variance,
         synchrony_index |-> SynchronyIndex(phase_variance),
         timestamp |-> clock]

CoherenceEntry(groupState, l, clock, rnd) ==
    WithHash([entry_id |-> <<"coherence", clock, rnd>>,
              entry_type |-> "GROUP_COHERENCE",
              created_at |-> groupState.timestamp,
              payload |-> [group_id |-> groupState.group_id,
                           node_count |-> MapSize(groupState.node_states),
                           mean_theta |-> groupState.mean_theta,
                           phase_variance |-> groupState.phase_variance,
                           synchrony_index |-> groupState.synchrony_index,
                           interpretation |->
                               interpretCoherence(groupState.synchrony_index)],
              prev_hash |-> TailHash(l),
              hash |-> EmptyString])

\* this.emit(name, entry): the listeners of name are called with the entry,
\* and find the ledger l when they run
\* updateGroupCoherence(groupId) and the logGroupCoherence it ends with: what
\* they make of the group-state map and of the ledger
updateGroupCoherenceStateOnly(groupId, states, groups, l, clock, rnd) ==
    IF MapSize(GroupNodes(states, groupId)) = 0
    THEN [groupStates |-> groups, ledger |-> l]
    ELSE [groupStates |-> MapSet(groups, groupId,
                                 GroupStateOf(groupId, states, clock)),
          ledger |-> l]
updateGroupCoherence(groupId, states, groups, l, clock, rnd) ==
    IF MapSize(GroupNodes(states, groupId)) = 0
    THEN [groupStates |-> groups, ledger |-> l]
    ELSE LET groupState == GroupStateOf(groupId, states, clock)
         IN  [groupStates |-> MapSet(groups, groupId, groupState),
              ledger |-> Push(l, CoherenceEntry(groupState, l, clock, rnd))]

Event(name, entry, l) == [event |-> name, entry |-> entry, ledger_length |-> Len(l)]
\* the listeners registered with on(): a call of emit runs them in place, and
\* an error one of them throws leaves emit, and the method that called it
ListenerFaults == {{}, {"phase_logged"}, {"coherence_logged"}}
ListenerError == "listener failed"
\* result holds what the last call handed back that names its outcome: the
\* text of the error it ended in, the status field of the response body, or
\* NoError when it returned without either
NoError == "none"

\* a throw before anything was written: only the caller sees the error
Throw(message) ==
    /\ result' = message
    /\ UNCHANGED <<program, now, ledger, nodeStates, groupStates, emitted,
                   broadcasts, input, output,
                   ledgerFile, requests,
                   chain, client>>

\* a call that only reads
Return(status) ==
    /\ result' = status
    /\ UNCHANGED <<program, now, ledger, nodeStates, groupStates, emitted,
                   broadcasts, input, output,
                   ledgerFile, requests,
                   chain, client>>

\* emitted holds the events the last call of logPhasePacket emitted, in the
\* order of the emit calls; a call that throws before it wrote emits none
Reject(message) ==
    /\ result' = message
    /\ emitted' = <<>>
    /\ UNCHANGED <<program, now, ledger, nodeStates, groupStates, broadcasts,
                   input, output,
                   ledgerFile, requests,
                   chain, client>>

logPhasePacket(packet, snh, rnd1, rnd2, throwing) ==
    IF ~validateConsent(snh)
    THEN Reject("Consent validation failed")
    ELSE IF snh.neurodata_class = "raw"
    THEN Reject("Raw neurodata cannot be logged to registry")
    ELSE
      LET entry == PhaseEntry(packet, ledger, now, rnd1)
          ledger1 == Push(ledger, entry)
          nodeStates1 == MapSet(nodeStates, packet.node_id, packet.state)
          \* if (packet.group_id) this.updateGroupCoherence(packet.group_id)
          updated == updateGroupCoherence(packet.group_id, nodeStates1,
                                          groupStates, ledger1, now, rnd2)
          ledger2 == updated.ledger
          \* logGroupCoherence: this.emit('coherence_logged', entry)
          emitted1 == IF Len(ledger2) > Len(ledger1)
                      THEN <<Event("coherence_logged", ledger2[Len(ledger2)],
                                   ledger2)>>
                      ELSE <<>>
      IN  /\ NumObservations(ledger) < MaxObservations
          /\ nodeStates' = nodeStates1
          /\ IF packet.group_id # Undefined
             THEN /\ groupStates' = updated.groupStates
                  /\ ledger' = ledger2
                  /\ IF emitted1 # <<>> /\ "coherence_logged" \in throwing
                     THEN /\ emitted' = emitted1
                          /\ result' = ListenerError
                     ELSE /\ emitted' = Append(emitted1,
                                             Event("phase_logged", entry, ledger2))
                          /\ result' = IF "phase_logged" \in throwing
                                       THEN ListenerError ELSE NoError
             ELSE /\ groupStates' = groupStates
                  /\ ledger' = ledger1
                  /\ emitted' = <<Event("phase_logged", entry, ledger1)>>
                  /\ result' = IF "phase_logged" \in throwing
                               THEN ListenerError ELSE NoError
          /\ UNCHANGED <<program, now, broadcasts, input, output,
                   ledgerFile, requests,
                   chain, client>>

verifyIntegrity(l) ==
    LET bad == {i \in 1 .. (Len(l) - 1) :
                   \/ At(l, i).prev_hash # At(l, i - 1).hash
                   \/ At(l, i).hash # computeHash(At(l, i))}
    IN  IF bad = {} THEN [ok |-> TRUE, index |-> -1]
        ELSE [ok |-> FALSE, index |-> CHOOSE i \in bad : \A j \in bad : i <= j]

TrigStates == [theta : Quarters, amplitude : {Unit}, phase : {0},
               timestamp : {now}]

Call(state, node_id, group_id, snh) ==
    [state |-> state, node_id |-> node_id, group_id |-> group_id, snh |-> snh]
\* n1 reports either angle under either group or none, n2 reports PI/2 under
\* g1 or under no group; one packet is also tried with each probe header
Submissions ==
    {Call(st, "n1", g, snh) :
        st \in TrigStates, g \in Groups \cup {Undefined}, snh \in PacketHeaders}
    \cup {Call(st, "n2", g, snh) :
             st \in {s \in TrigStates : s.theta = 1}, g \in {"g1", Undefined},
             snh \in PacketHeaders}
    \cup {Call(st, "n1", "g1", snh) :
             st \in {s \in TrigStates : s.theta = 1}, snh \in ProbeHeaders}

\* processor.createPhasePacket(...) followed by registry.logPhasePacket(packet, snh)
CoreLogPhasePacket ==
    /\ program = "core"
    /\ \E c \in Submissions, rnd1 \in RandomSuffixes, rnd2 \in RandomSuffixes,
          throwing \in ListenerFaults :
          logPhasePacket(createPhasePacket(c.state, c.node_id, SessionId,
                                           SnhDigest, c.group_id, now),
                         c.snh, rnd1, rnd2, throwing)

\* a payload object after the write payload.tampered = true
Altered(payload) ==
    [k \in (DOMAIN payload) \cup {"tampered"} |->
        IF k = "tampered" THEN TRUE ELSE payload[k]]

\* getLedger(): [...this.ledger], a new array whose elements are the entry
\* objects of this.ledger themselves; an element is written here as the
\* index in this.ledger of the object it refers to
getLedger(l) == [k \in 1 .. Len(l) |-> k]
\* copy[k].payload.tampered = true: a write to the object element k refers to
WriteThrough(l, copy, k) == [l EXCEPT ![copy[k]].payload = Altered(@)]
\* copy.pop(), copy.push(x), copy.reverse(): the array the caller holds
ArrayEdits == {"pop", "push", "reverse"}
EditArray(copy, edit) ==
    CASE edit = "pop" -> SubSeq(copy, 1, Len(copy) - 1)
      [] edit = "push" -> Append(copy, 0)
      [] OTHER -> [k \in 1 .. Len(copy) |-> copy[Len(copy) + 1 - k]]

\* verifyIntegrity() and getLedger() read the ledger and write nothing; what
\* they return is verifyIntegrity(ledger).ok and a copy of ledger
CoreVerifyIntegrity ==
    /\ program = "core"
    /\ verifyIntegrity(ledger).ok \in BOOLEAN
    /\ Return(NoError)

CoreGetLedger ==
    /\ program = "core"
    /\ Return(NoError)

\* Date.now() moves on between two calls
Tick ==
    /\ now < MaxClock
    /\ now' = now + 1
    /\ UNCHANGED <<program, ledger, nodeStates, groupStates, emitted,
                   broadcasts, result, input, output,
                   ledgerFile, requests,
                   chain, client>>

\* ------------------------------------ SimplifiedTrigFPT (enhanced server)
\* Math.sqrt of a small whole number, in thousandths
SqrtMilli(x) ==
    CASE x = 0 -> 0
      [] x = 1 -> 1000
      [] x = 2 -> 1414
      [] x = 3 -> 1732
      [] x = 4 -> 2000
      [] OTHER -> CHOOSE r \in 0 .. (1000 * x) :
                      r * r <= 1000000 * x /\ (r + 1) * (r + 1) > 1000000 * x

\* bands.key || 0
BandOrZero(bands, key) == IF key \in DOMAIN bands THEN bands[key] ELSE 0

\* theta = (alpha*0.5 + gamma*1.0 + theta_band*1.5) * PI, in quarter turns
eegToPhaseState(bands, clock) ==
    LET alpha == BandOrZero(bands, "alpha")
        theta_band == BandOrZero(bands, "theta")
        gamma == BandOrZero(bands, "gamma")
    IN  [theta |-> alpha + 2 * gamma + 3 * theta_band,
         amplitude |-> (SqrtMilli(alpha + gamma) * 800) \div Unit + 500,
         phase |-> 0,
         timestamp |-> clock]

processor_computeTriad(state) ==
    LET totalPhase == state.theta + state.phase
        jolt == state.amplitude * SinQ(totalPhase)
        observer == state.amplitude * CosQ(totalPhase)
        cos_val == state.amplitude * CosQ(totalPhase)
        vhitzee == IF cos_val = 0
                   THEN (IF jolt > 0 THEN Infinity ELSE NegInfinity)
                   ELSE Finite(DivTrunc(jolt * Unit, cos_val))
    IN  [jolt |-> jolt, observer |-> observer, vhitzee |-> vhitzee]

processor_computeVitality(triad) ==
    LET jolt_norm == Min(Abs(triad.jolt), Unit)
        observer_norm == Min(Abs(triad.observer), Unit)
        opposition_penalty == IF IsFinite(triad.vhitzee)
                              THEN Min(Abs(triad.vhitzee[2]) \div 10, 300)
                              ELSE 300
        vitality_raw == (600 * observer_norm + 400 * jolt_norm) \div Unit
                        - opposition_penalty
    IN  Max(500, Min(1500, vitality_raw + 500))

\* the first test taken as Math.abs(triad.vhitzee) >= 3
getRecommendationAtThree(triad) ==
    IF ~IsFinite(triad.vhitzee) \/ Abs(triad.vhitzee[2]) >= 3000 THEN "protect"
    ELSE IF Abs(triad.observer) > 700 /\ Abs(triad.vhitzee[2]) < 1000 THEN "boost_ok"
    ELSE "neutral"
getRecommendation(triad) ==
    IF ~IsFinite(triad.vhitzee) \/ Abs(triad.vhitzee[2]) > 3000 THEN "protect"
    ELSE IF Abs(triad.observer) > 700 /\ Abs(triad.vhitzee[2]) < 1000 THEN "boost_ok"
    ELSE "neutral"

\* the packet createPhasePacket lays out from a state, its triad and vitality
PhasePacket(state, triad, vitality, nodeId, sessionId, snhDigest, groupId, clock) ==
    [packet_version |-> "1.0.0-trig",
     session_id |-> sessionId,
     node_id |-> nodeId,
     group_id |-> groupId,
     state |-> state,
     triad |-> triad,
     vitality |-> vitality,
     epsilon_d |-> (EpsilonBaseTenThousandths * vitality) \div 10,
     opposition_flags |->
         [high_stress |-> ~IsFinite(triad.vhitzee)
                          \/ Abs(triad.vhitzee[2]) > 3000,
          near_singularity |-> ~IsFinite(triad.vhitzee),
          recommendation |-> getRecommendation(triad)],
     snh_digest |-> snhDigest,
     created_at |-> clock]

\* what an instance of SimplifiedTrigFPT holds: the two fields its constructor
\* sets and the method of the class; computeTriad, computeVitality and
\* getRecommendation are fields of this.processor
InstanceMembers == {"processor", "registry", "processAndLog"}
\* a call of a member the object does not have
TypeError(message) == [thrown |-> message]
IsThrown(value) == "thrown" \in DOMAIN value

\* createPhasePacket is an arrow function written in the constructor: its
\* this is the instance, and it calls this.computeTriad(state)
processor_createPhasePacket(bands, nodeId, sessionId, snhDigest, groupId, clock) ==
    LET state == eegToPhaseState(bands, clock)
        triad == processor_computeTriad(state)
        vitality == processor_computeVitality(triad)
    IN  IF "computeTriad" \notin InstanceMembers
        THEN TypeError("this.computeTriad is not a function")
        ELSE PhasePacket(state, triad, vitality, nodeId, sessionId, snhDigest,
                         groupId, clock)

InfString == <<"INF", 0>>

registry_PhaseEntry(packet, l, clock, rnd) ==
    WithHash([entry_id |-> <<"phase", clock, rnd>>,
              entry_type |-> "PHASE_AGGREGATE",
              created_at |-> packet.created_at,
              payload |-> [session_id |-> packet.session_id,
                           node_id |-> packet.node_id,
                           group_id |-> packet.group_id,
                           theta |-> packet.state.theta,
                           amplitude |-> packet.state.amplitude,
                           jolt |-> packet.triad.jolt,
                           observer |-> packet.triad.observer,
                           vhitzee |-> IF IsFinite(packet.triad.vhitzee)
                                       THEN packet.triad.vhitzee ELSE InfString,
                           vitality |-> packet.vitality,
                           epsilon_d |-> packet.epsilon_d,
                           opposition |-> packet.opposition_flags],
              prev_hash |-> TailHashOrZero(l),
              hash |-> EmptyString])

\* the if / else if chain that sets status in registry.updateGroupCoherence
registry_status(synchrony_index) ==
    IF synchrony_index > 800 THEN "COLLECTIVE_COIL_ENGAGED"
    ELSE IF synchrony_index > 600 THEN "HIGH_COHERENCE"
    ELSE IF synchrony_index > 400 THEN "MODERATE_COHERENCE"
    ELSE "LOW_COHERENCE"

\* the value registry.updateGroupCoherence stores; nothing goes to the ledger
registry_GroupStateOf(groupId, states, clock) ==
    LET mean_theta == MeanTheta(states)
        phase_variance == PhaseVariance(states, mean_theta)
        synchrony_index == SynchronyIndex(phase_variance)
    IN  [group_id |-> groupId,
         node_count |-> MapSize(states),
         mean_theta |-> mean_theta,
         phase_variance |-> phase_variance,
         synchrony_index |-> synchrony_index,
         status |-> registry_status(synchrony_index),
         timestamp |-> clock]

\* an update that stores the new state under every group the map holds
registry_updateGroupCoherenceEvery(groupId, states, groups, clock) ==
    IF MapSize(states) = 0 THEN groups
    ELSE [g \in DOMAIN groups \cup {groupId} |->
             registry_GroupStateOf(groupId, states, clock)]
\* registry.updateGroupCoherence(groupId): what it makes of the group-state map
registry_updateGroupCoherence(groupId, states, groups, clock) ==
    IF MapSize(states) = 0 THEN groups
    ELSE MapSet(groups, groupId, registry_GroupStateOf(groupId, states, clock))

PhaseUpdate(packet) ==
    [type |-> "PHASE_UPDATE",
     node_id |-> packet.node_id,
     theta |-> packet.state.theta,
     amplitude |-> packet.state.amplitude,
     vitality |-> packet.vitality,
     triad |-> [jolt |-> packet.triad.jolt, observer |-> packet.triad.observer],
     timestamp |-> packet.created_at]

\* res.status(400).json({ error }): the handler returns before any write
\* a validation failure thrown into the catch of the handler
Status400Caught(error) == Throw("Internal error")
Status400(error) == Throw(error)
\* catch (error): res.status(500).json({ error: error.message })
Status500(error) == Throw(error)

\* registry.logPhasePacket(packet): the writes to the registry's three fields
registry_logPhasePacket(packet, rnd) ==
    LET entry == registry_PhaseEntry(packet, ledger, now, rnd)
        nodeStates1 == MapSet(nodeStates, packet.node_id, packet.state)
    IN  /\ NumObservations(ledger) < MaxObservations
        /\ ledger' = Push(ledger, entry)
        /\ nodeStates' = nodeStates1
        /\ groupStates' =
               IF packet.group_id # Undefined
               THEN registry_updateGroupCoherence(packet.group_id, nodeStates1,
                                                  groupStates, now)
               ELSE groupStates

NoBands == [missing |-> TRUE]
Body(bands, node_id, session_id, group_id) ==
    [bands |-> bands, node_id |-> node_id, session_id |-> session_id,
     group_id |-> group_id]
\* request bodies: the well-formed ones, and one lacking each required part
GeometricBodies ==
    {Body([alpha |-> a], "n1", SessionId, g) :
        a \in Quarters, g \in Groups \cup {Undefined}}
    \cup {Body([alpha |-> 1], "n2", SessionId, g) : g \in {"g1", Undefined}}
    \cup {Body(NoBands, "n1", SessionId, "g1"),
          Body(NoBands, Undefined, Undefined, Undefined),
          Body([alpha |-> 1], Undefined, SessionId, "g1"),
          Body([alpha |-> 1], "n1", Undefined, "g1")}

\* app.post('/aggregate/geometric'): validation, processAndLog, broadcast
PostAggregateGeometric(body) ==
    /\ program = "server"
    /\ \E rnd \in RandomSuffixes :
        LET bands == body.bands
            node_id == body.node_id
            session_id == body.session_id
            group_id == body.group_id
            \* geometricFPT.processAndLog(bands, node_id, session_id, ...)
            packet == processor_createPhasePacket(bands, node_id, session_id,
                                                  "none", group_id, now)
        IN  IF bands = NoBands
            THEN Status400("EEG bands required")
            ELSE IF node_id = Undefined \/ session_id = Undefined
            THEN Status400("node_id and session_id required")
            ELSE IF IsThrown(packet)
            THEN Status500(packet.thrown)
            ELSE /\ registry_logPhasePacket(packet, rnd)
                 /\ broadcasts' = Append(broadcasts, PhaseUpdate(packet))
                 /\ result' = "witnessed_geometric"
                 /\ UNCHANGED <<program, now, emitted, input, output,
                   ledgerFile, requests,
                   chain, client>>

\* the packets the processor's functions make of a request body, as
\* createPhasePacket lays them out
RegistryPackets ==
    {PhasePacket(eegToPhaseState(b.bands, now),
                 processor_computeTriad(eegToPhaseState(b.bands, now)),
                 processor_computeVitality(
                     processor_computeTriad(eegToPhaseState(b.bands, now))),
                 b.node_id, b.session_id, "none", b.group_id, now) :
        b \in {x \in GeometricBodies :
                  x.bands # NoBands /\ x.node_id # Undefined
                                    /\ x.session_id # Undefined}}

\* geometricFPT.registry.logPhasePacket(packet), the registry called on its own
RegistryLogPhasePacket ==
    /\ program = "registry"
    /\ \E packet \in RegistryPackets, rnd \in RandomSuffixes :
          /\ registry_logPhasePacket(packet, rnd)
          /\ result' = NoError
          /\ UNCHANGED <<program, now, emitted, broadcasts, input, output,
                   ledgerFile, requests,
                   chain, client>>

\* app.post('/revoke'): the token is acknowledged, nothing is recorded
PostRevoke ==
    /\ program = "server"
    /\ \E revocation_token \in {"tok", Undefined}, session_id \in {SessionId} :
        IF revocation_token = Undefined
        THEN Status400("Revocation token required")
        ELSE Return("revoked")

\* res.status(404).json({ error })
NotFound(error) == [code |-> 404, body |-> [error |-> error]]

\* res.json(body)
Ok(body) == [code |-> 200, body |-> body]

\* Number.prototype.toFixed: the string of a number rounded to so many
\* decimals, kept as the count of units of the last decimal
toFixed(units, digits) == <<"toFixed", digits, units>>

\* if (!state) taken as: no state, or a state whose theta is 0
GetPhaseResponseFalsyTheta(states, node_id) ==
    IF ~MapHas(states, node_id) \/ states[node_id].theta = 0
    THEN NotFound("Node not found")
    ELSE Ok([node_id |-> node_id, state |-> states[node_id]])
\* app.get('/phase/:node_id'): what it answers; theta is in quarter turns,
\* 9000 hundredths of a degree each
GetPhaseResponse(states, node_id) ==
    IF ~MapHas(states, node_id)
    THEN NotFound("Node not found")
    ELSE Ok([node_id |-> node_id,
             state |-> [theta |-> states[node_id].theta,
                        theta_degrees |-> toFixed(states[node_id].theta * 9000, 2),
                        amplitude |-> states[node_id].amplitude,
                        phase |-> states[node_id].phase,
                        timestamp |-> states[node_id].timestamp]])

\* app.get('/coherence/:group_id'): what it answers; mean_theta is in
\* milliradians, phase_variance in millionths, synchrony_index in thousandths
GetCoherenceResponse(groups, group_id) ==
    IF ~MapHas(groups, group_id)
    THEN NotFound("Group not found")
    ELSE LET coherence == groups[group_id]
         IN  Ok([group_id |-> coherence.group_id,
                 node_count |-> coherence.node_count,
                 mean_theta |-> coherence.mean_theta,
                 mean_theta_degrees |->
                     toFixed((coherence.mean_theta * 18000) \div PiMilli, 2),
                 phase_variance |->
                     toFixed((coherence.phase_variance + 50) \div 100, 4),
                 synchrony_index |-> toFixed(coherence.synchrony_index * 10, 4),
                 status |-> coherence.status,
                 timestamp |-> coherence.timestamp])

\* a read route: result takes the error of the answer, or NoError with 200
Answer(response) ==
    IF response.code = 404 THEN Throw(response.body.error) ELSE Return(NoError)

GetPhase(node_id) ==
    /\ program \in {"server", "registry"}
    /\ Answer(GetPhaseResponse(nodeStates, node_id))

GetCoherence(group_id) ==
    /\ program \in {"server", "registry"}
    /\ Answer(GetCoherenceResponse(groupStates, group_id))

\* app.get('/ledger/geometric')
GetLedgerGeometric ==
    /\ program \in {"server", "registry"}
    /\ Return(NoError)

\* ---------------------------------- POST /aggregate over ledger.json
\* A request body is a record of the keys it has; a JS value in it is a pair
\* of its kind ("number", "string", "array", "object", "null") and its
\* content, and <<"undefined">> is what reading a missing key gives.
\* req.body.key
Field(body, key) == IF key \in DOMAIN body THEN body[key] ELSE <<"undefined">>
\* what if (v), !v and v || w make of a value
Truthy(v) ==
    CASE v[1] \in {"undefined", "null"} -> FALSE
      [] v[1] = "number" -> v[2] # 0
      [] v[1] = "string" -> v[2] # ""
      [] OTHER -> TRUE
\* typeof v
TypeOf(v) ==
    CASE v[1] \in {"null", "array", "object"} -> "object"
      [] OTHER -> v[1]
OrElse(v, w) == IF Truthy(v) THEN v ELSE w

\* requests in flight at once
MaxRequests == 2
Requests == 1 .. MaxRequests
\* ledger.json before the first write
NoFile == [exists |-> FALSE, entries |-> <<>>]
\* ledger.json as fs.writeFile left it: the JSON text of an array of entries
Written(entries) == [exists |-> TRUE, entries |-> entries]
\* a request that has not arrived
NoRequest == [pc |-> "none"]

\* request bodies of POST /aggregate: aggregates with and without node_id,
\* bodies without a usable vitality, and bodies with raw_eeg or eeg_samples
AggregateBodies ==
    LET VitalityAggregate == <<"object", [score |-> 1]>>
        Samples == <<"array", <<7, 9>>>>
    IN  {[vitality |-> VitalityAggregate, node_id |-> <<"string", "n1">>],
         [vitality |-> VitalityAggregate],
         [node_id |-> <<"string", "n1">>],
         [vitality |-> <<"string", "high">>],
         [vitality |-> VitalityAggregate, raw_eeg |-> Samples],
         [vitality |-> VitalityAggregate, eeg_samples |-> Samples],
         [raw_eeg |-> Samples],
         [vitality |-> VitalityAggregate, raw_eeg |-> <<"number", 0>>]}

\* res.status(code).json(body)
Response(code, body) == [code |-> code, body |-> body]
Answered(body, response) == [pc |-> "done", body |-> body, response |-> response]

\* the entry the handler builds before it reads the file
AggregateEntry(body, clock) ==
    [timestamp |-> clock,
     node_id |-> OrElse(Field(body, "node_id"), <<"string", "anonymous">>),
     vitality |-> Field(body, "vitality"),
     snh_digest |-> OrElse(Field(body, "snh_digest"), <<"string", "none">>)]

\* if (req.body.raw_eeg || req.body.eeg_samples)
RawEegCheck(body) ==
    Truthy(OrElse(Field(body, "raw_eeg"), Field(body, "eeg_samples")))

\* app.post('/aggregate') up to its first await: validation, the entry, and
\* the call of fs.readFile
PostAggregate(r, body) ==
    /\ program = "aggregate"
    /\ requests[r] = NoRequest
    /\ requests' = [requests EXCEPT ![r] =
          IF ~Truthy(Field(body, "vitality"))
             \/ TypeOf(Field(body, "vitality")) # "object"
          THEN Answered(body, Response(400, [error |-> "Invalid vitality aggregate"]))
          ELSE IF RawEegCheck(body)
          THEN Answered(body, Response(403, [error |-> "Raw EEG data rejected"]))
          ELSE [pc |-> "readFile", body |-> body,
                entry |-> AggregateEntry(body, now)]]
    /\ UNCHANGED <<program, now, ledger, nodeStates, groupStates, emitted,
                   broadcasts, result, input, output, ledgerFile,
                   chain, client>>

\* await fs.readFile resumes: JSON.parse of the data, or [] when the read or
\* the parse threw; then ledger.push(entry) and the call of fs.writeFile
ReadFileResumes(r, failed) ==
    /\ program = "aggregate"
    /\ requests[r].pc = "readFile"
    /\ ~ledgerFile.exists => failed
    /\ LET read == IF failed THEN <<>> ELSE ledgerFile.entries
       IN  requests' = [requests EXCEPT ![r] =
               [pc |-> "writeFile", body |-> @.body,
                ledger |-> Append(read, @.entry)]]
    /\ UNCHANGED <<program, now, ledger, nodeStates, groupStates, emitted,
                   broadcasts, result, input, output, ledgerFile,
                   chain, client>>

\* await fs.writeFile resumes: the file holds the array of this request, and
\* the request is answered; a write that threw is answered by the catch
WriteFileResumes(r, failed) ==
    /\ program = "aggregate"
    /\ requests[r].pc = "writeFile"
    /\ ledgerFile' = IF failed THEN ledgerFile ELSE Written(requests[r].ledger)
    /\ requests' = [requests EXCEPT ![r] =
          IF failed
          THEN Answered(@.body, Response(500, [error |-> "Internal error"]))
          ELSE [pc |-> "done", body |-> @.body, ledger |-> @.ledger,
                response |-> Response(200, [status |-> "witnessed",
                                            entry_id |-> Len(@.ledger) - 1])]]
    /\ UNCHANGED <<program, now, ledger, nodeStates, groupStates, emitted,
                   broadcasts, result, input, output, chain, client>>

\* ------------------------------------------------- NorthStarLedger
\* Texts (JSON, hexadecimal digests, signatures) are sequences of numbers:
\* '' is <<>> and the previousHash '0' of a first entry is <<0>>.
\* JSON.stringify(entry): the fields in their order, each text with its length
Serialized(entry) ==
    <<entry.index, Len(entry.previousHash)>> \o entry.previousHash
    \o <<entry.claim.uei, entry.claim.timestamp, entry.phaseState.vitality,
         entry.phaseState.epsilon_d, entry.phaseState.coherence,
         Len(entry.hash)>> \o entry.hash
    \o <<Len(entry.signature)>> \o entry.signature

\* the sha256 digest of the serialized entry, as an injective function of it
calculateHash(entry) == <<1>> \o Serialized(entry)

\* ecdsa.sign and ecdsa.verify with the ledger's own key pair
ecdsa_sign(hash) == <<2>> \o hash
ecdsa_verify(hash, signature) == signature = <<2>> \o hash

\* the symmetry check: a sum of bytes of the digest is a multiple of 8.  The
\* first eight bytes of a real digest depend on the whole text, so the sum
\* here runs over the whole digest.
validateOctagonalGeometry(entry) == SumInts(entry.hash) % 8 = 0

\* an addEntry that pushes the entry before it validates it
addEntryPushFirst(this_chain, claim, phaseState) ==
    LET previousHash == IF Len(this_chain) > 0
                        THEN this_chain[Len(this_chain)].hash ELSE <<0>>
        blank == [index |-> Len(this_chain), previousHash |-> previousHash,
                  claim |-> claim, phaseState |-> phaseState,
                  hash |-> <<>>, signature |-> <<>>]
        hashed == [blank EXCEPT !.hash = calculateHash(blank)]
        entry == [hashed EXCEPT !.signature = ecdsa_sign(hashed.hash)]
    IN  [returned |-> validateOctagonalGeometry(entry),
         chain |-> Append(this_chain, entry)]
\* addEntry(claim, phaseState): what it returns and the chain after it
addEntry(this_chain, claim, phaseState) ==
    LET previousHash == IF Len(this_chain) > 0
                        THEN this_chain[Len(this_chain)].hash ELSE <<0>>
        blank == [index |-> Len(this_chain), previousHash |-> previousHash,
                  claim |-> claim, phaseState |-> phaseState,
                  hash |-> <<>>, signature |-> <<>>]
        hashed == [blank EXCEPT !.hash = calculateHash(blank)]
        entry == [hashed EXCEPT !.signature = ecdsa_sign(hashed.hash)]
    IN  IF ~validateOctagonalGeometry(entry)
        THEN [returned |-> FALSE, chain |-> this_chain]
        ELSE [returned |-> TRUE, chain |-> Append(this_chain, entry)]

\* createGenesis() at Date.now() = time; the value of addEntry is dropped
createGenesis(this_chain, time) ==
    addEntry(this_chain, [uei |-> 0, timestamp |-> time],
             [vitality |-> 1, epsilon_d |-> 0, coherence |-> 1]).chain

\* verifyChain(): every entry after the first against the one before it
verifyChain(this_chain) ==
    \A i \in 2 .. Len(this_chain) :
        LET current == this_chain[i]
            previous == this_chain[i - 1]
        IN  /\ current.previousHash = previous.hash
            /\ current.hash = calculateHash(current)
            /\ ecdsa_verify(current.hash, current.signature)
            /\ validateOctagonalGeometry(current)

\* entries a chain may hold
MaxChain == 3
\* claims and phase states callers submit: any residue of the byte sum
SovereigntyClaims == [uei : 1 .. 2, timestamp : 0 .. 7]
PhaseStates == {[vitality |-> 1, epsilon_d |-> 0, coherence |-> 1]}

\* ledger.addEntry(claim, phaseState) by a caller
AddEntry(claim, phaseState) ==
    /\ program = "northstar"
    /\ Len(chain) < MaxChain
    /\ LET call == addEntry(chain, claim, phaseState)
       IN  /\ chain' = call.chain
           /\ output' = [fn |-> "addEntry", returned |-> call.returned]
    /\ UNCHANGED <<program, now, ledger, nodeStates, groupStates, emitted,
                   broadcasts, result, input, ledgerFile, requests, client>>

\* ledger.verifyChain() by a caller
VerifyChain ==
    /\ program = "northstar"
    /\ output' = [fn |-> "verifyChain", returned |-> verifyChain(chain)]
    /\ UNCHANGED <<program, now, ledger, nodeStates, groupStates, emitted,
                   broadcasts, result, input, ledgerFile, requests, chain,
                   client>>

\* ------------------------------------------------- registry client
\* A URL is a sequence of its parts, the last one "/" when it ends in a
\* slash; null is <<"null">> and the empty string <<>>.
\* calls of logAggregateRemote / logRevocationRemote in flight at once
MaxCallers == 2
Callers == 1 .. MaxCallers
\* discoveries a process is followed through
MaxDiscoveries == 3

\* the client module once loaded: let cachedBaseUrl = null; calls[c] is the
\* position of caller c, discoveries counts the calls of discoverRegistryNodes
ClientLoaded ==
    [cachedBaseUrl |-> <<"null">>, discoveries |-> 0,
     calls |-> [c \in Callers |-> [pc |-> "none"]]]

\* what discoverRegistryNodes() resolves to: the fallback North Star when the
\* fetch fails, and the nodes of a seeds file otherwise: the seed itself, a
\* file whose first certified node is another one, one whose http ends in a
\* slash, one without a certified node, and an empty one
discoverRegistryNodes ==
    LET northstar == [http |-> <<"https://northstar.soliton.registry">>,
                      nds_certified |-> TRUE]
        other(slash, certified) ==
            [http |-> <<"https://other.soliton.registry">> \o slash,
             nds_certified |-> certified]
    IN  {<<northstar>>,
         <<other(<<>>, FALSE), northstar>>,
         <<other(<<>>, TRUE), northstar>>,
         <<other(<<"/">>, TRUE)>>,
         <<other(<<>>, FALSE)>>,
         <<>>}

\* if (cachedBaseUrl): null and the empty string are falsy
IsCached(url) == url # <<"null">> /\ url # <<>>

\* node.http.replace(/\/$/, "") of nodes.find(n => n.nds_certified) || nodes[0]
BaseUrlOf(nodes) ==
    LET certified == {i \in DOMAIN nodes : nodes[i].nds_certified}
        node == IF certified # {}
                THEN nodes[CHOOSE i \in certified : \A j \in certified : i <= j]
                ELSE nodes[1]
    IN  IF node.http # <<>> /\ node.http[Len(node.http)] = "/"
        THEN SubSeq(node.http, 1, Len(node.http) - 1)
        ELSE node.http

\* logAggregateRemote(packet) or logRevocationRemote(receipt) up to the first
\* await that suspends it: getBaseUrl() returns the cached URL, and the POST
\* is sent to it, or it starts discoverRegistryNodes()
RemoteCall(c, route) ==
    /\ program = "client"
    /\ client.calls[c].pc \in {"none", "done", "failed"}
    /\ IF IsCached(client.cachedBaseUrl)
       THEN client' = [client EXCEPT !.calls[c] =
                          [pc |-> "fetch", route |-> route,
                           base |-> client.cachedBaseUrl]]
       ELSE /\ client.discoveries < MaxDiscoveries
            /\ client' = [client EXCEPT
                             !.discoveries = @ + 1,
                             !.calls[c] = [pc |-> "discover", route |-> route]]
    /\ UNCHANGED <<program, now, ledger, nodeStates, groupStates, emitted,
                   broadcasts, result, input, output, ledgerFile, requests,
                   chain>>

\* await discoverRegistryNodes() resumes in getBaseUrl with nodes: the cache
\* is written, whatever it holds by now; with no node at all, node.http throws
DiscoveryResumes(c, nodes) ==
    /\ program = "client"
    /\ client.calls[c].pc = "discover"
    /\ client' =
          IF nodes = <<>>
          THEN [client EXCEPT !.calls[c] =
                   [pc |-> "failed", route |-> @.route]]
          ELSE [client EXCEPT
                   !.cachedBaseUrl = BaseUrlOf(nodes),
                   !.calls[c] = [pc |-> "fetch", route |-> @.route,
                                 base |-> BaseUrlOf(nodes)]]
    /\ UNCHANGED <<program, now, ledger, nodeStates, groupStates, emitted,
                   broadcasts, result, input, output, ledgerFile, requests,
                   chain>>

\* await fetch(`${base}/aggregate`) or fetch(`${base}/revoke`) is over
FetchResumes(c) ==
    /\ program = "client"
    /\ client.calls[c].pc = "fetch"
    /\ client' = [client EXCEPT !.calls[c] =
                     [pc |-> "done", route |-> @.route, base |-> @.base]]
    /\ UNCHANGED <<program, now, ledger, nodeStates, groupStates, emitted,
                   broadcasts, result, input, output, ledgerFile, requests,
                   chain>>

\* ------------------------------------------------- codex operators
\* A JS number of the codex operators is a decimal float [m, e] standing for
\* m * 10^e, with eight significant digits: m is 0, or 10^7 <= |m| < 10^8.
\* Every operation truncates its exact result to eight digits, as a double
\* rounds to 53 bits.
RECURSIVE Normalize(_, _)
Normalize(m, e) ==
    IF m = 0 THEN [m |-> 0, e |-> 0]
    ELSE IF Abs(m) >= 10 ^ 8 THEN Normalize(DivTrunc(m, 10), e + 1)
    ELSE IF Abs(m) < 10 ^ 7 THEN Normalize(m * 10, e - 1)
    ELSE [m |-> m, e |-> e]

\* a + b, with one guard digit
Plus(a, b) ==
    IF a.m = 0 THEN b
    ELSE IF b.m = 0 THEN a
    ELSE LET hi == IF a.e >= b.e THEN a ELSE b
             lo == IF a.e >= b.e THEN b ELSE a
             d == hi.e - lo.e
         IN  IF d > 8 THEN hi
             ELSE Normalize(hi.m * 10 + DivTrunc(lo.m * 10, 10 ^ d), hi.e - 1)
Minus(a, b) == Plus(a, [m |-> -b.m, e |-> b.e])
Magnitude(a) == [m |-> Abs(a.m), e |-> a.e]
Less(a, b) == Minus(a, b).m < 0

\* a * b, from the halves of the two mantissas
Times(a, b) ==
    IF a.m = 0 \/ b.m = 0 THEN [m |-> 0, e |-> 0]
    ELSE LET a1 == Abs(a.m) \div 10000
             a0 == Abs(a.m) % 10000
             b1 == Abs(b.m) \div 10000
             b0 == Abs(b.m) % 10000
             product == 10 * a1 * b1
                        + (a1 * b0 + a0 * b1 + (a0 * b0) \div 10000) \div 1000
             sign == IF (a.m < 0) = (b.m < 0) THEN 1 ELSE -1
         IN  Normalize(sign * product, a.e + b.e + 7)

\* the digits of r / d after q, by long division
RECURSIVE LongDivision(_, _, _, _)
LongDivision(r, d, q, digits) ==
    IF digits = 0 THEN q
    ELSE LongDivision((r * 10) % d, d, q * 10 + (r * 10) \div d, digits - 1)

\* a / b for b # 0
Over(a, b) ==
    IF a.m = 0 THEN [m |-> 0, e |-> 0]
    ELSE LET quotient == LongDivision(Abs(a.m) % Abs(b.m), Abs(b.m),
                                      Abs(a.m) \div Abs(b.m), 8)
             sign == IF (a.m < 0) = (b.m < 0) THEN 1 ELSE -1
         IN  Normalize(sign * quotient, a.e - b.e - 8)

\* a whole number below 10^8 as a float
Number(n) == Normalize(n, 0)

\* const INFLATION_RATE = 0.03, GRAIN = 1e-6, and CANONICAL
INFLATION_RATE == Normalize(3, -2)
GRAIN == Normalize(1, -6)
CANONICAL == [PI |-> Normalize(31415926, -7),
              PHI |-> Normalize(16180339, -7),
              C |-> Normalize(29979245, 1)]

meshInflate(x) == Times(x, Plus(Number(1), INFLATION_RATE))
\* Math.pow(x, 3)
Cube(x) == Times(Times(x, x), x)
cubicCorrect(x) == Plus(x, Times(GRAIN, Cube(x)))

\* the loop of cubicInverse from its iteration i on, x being its variable
RECURSIVE NewtonLoop(_, _, _, _, _)
NewtonLoop(x, y, grain, tol, remaining) ==
    IF remaining = 0 THEN x
    ELSE LET f == Minus(Plus(x, Times(grain, Cube(x))), y)
             df == Plus(Number(1), Times(Times(Number(3), grain), Times(x, x)))
         IN  IF Less(Magnitude(f), tol) THEN x
             ELSE NewtonLoop(Minus(x, Over(f, df)), y, grain, tol, remaining - 1)

\* cubicInverse(y, grain = GRAIN, tol = 1e-15, maxIter = 50)
MaxIter == 50
cubicInverse(y) == NewtonLoop(y, y, GRAIN, Normalize(1, -15), MaxIter)

meshDeflate(x) == Over(x, Plus(Number(1), INFLATION_RATE))
\* the deflator taken as the inverse of cubicCorrect alone
sovereignDeflateCubicOnly(y) == cubicInverse(y)
sovereignDeflate(y) == meshDeflate(cubicInverse(y))

\* Math.sqrt(v) for v >= 0, by Heron's iteration from a power of ten
RECURSIVE Heron(_, _, _)
Heron(root, v, remaining) ==
    IF remaining = 0 THEN root
    ELSE Heron(Over(Plus(root, Over(v, root)), Number(2)), v, remaining - 1)
SquareRoot(v) ==
    IF v.m = 0 THEN v ELSE Heron(Normalize(1, (v.e + 8) \div 2), v, 12)

\* sum + d*d over the components, as the loop and the reduce add them
RECURSIVE SumSquares(_)
SumSquares(diff) ==
    IF diff = <<>> THEN Number(0)
    ELSE Plus(SumSquares(SubSeq(diff, 1, Len(diff) - 1)),
              Times(diff[Len(diff)], diff[Len(diff)]))

\* the TypeScript variant: sovereignTransformVector, sovereignDeflateVector
\* and sovereignDistance over sovereign vectors
sovereignTransformVector(vec) ==
    [i \in DOMAIN vec |-> cubicCorrect(meshInflate(vec[i]))]
sovereignDeflateVector(vec_sov) ==
    [i \in DOMAIN vec_sov |-> sovereignDeflate(vec_sov[i])]
sovereignDistance(a, b) ==
    IF Len(a) # Len(b) THEN [thrown |-> "Dimension mismatch"]
    ELSE Times(SquareRoot(SumSquares(
                   [i \in DOMAIN a |-> Minus(sovereignDeflate(a[i]),
                                             sovereignDeflate(b[i]))])),
               CANONICAL.PHI)

\* the JavaScript variant: vec.map(cubicCorrect).map(meshInflate), and the
\* norm of a - b times PHI
codex_sovereignTransformVector(vec) ==
    [i \in DOMAIN vec |-> meshInflate(cubicCorrect(vec[i]))]
codex_sovereignDistance(a, b) ==
    Times(SquareRoot(SumSquares([i \in DOMAIN a |-> Minus(a[i], b[i])])),
          CANONICAL.PHI)

\* ---------------------------------------------------------- specification
Init ==
    /\ program \in {"core", "server", "registry"}
    /\ now = 0
    /\ ledger = IF program = "core" THEN <<createGenesisEntry(0)>> ELSE <<>>
    /\ nodeStates = EmptyMap
    /\ groupStates = EmptyMap
    /\ emitted = <<>>
    /\ broadcasts = <<>>
    /\ result = NoError
    /\ input = NoCall
    /\ output = NoCall
    /\ ledgerFile = NoFile
    /\ requests = [r \in Requests |-> NoRequest]
    /\ chain = <<>>
    /\ client = NoClient

Next ==
    \/ CoreLogPhasePacket
    \/ CoreVerifyIntegrity
    \/ CoreGetLedger
    \/ \E body \in GeometricBodies : PostAggregateGeometric(body)
    \/ RegistryLogPhasePacket
    \/ PostRevoke
    \/ GetLedgerGeometric
    \/ \E node_id \in Nodes : GetPhase(node_id)
    \/ \E group_id \in Groups : GetCoherence(group_id)
    \/ Tick

Spec == Init /\ [][Next]_vars

\* a caller of getLedger() writes into an entry of the array it got
CallerWritesEntry ==
    /\ program = "core"
    /\ \E k \in 1 .. Len(getLedger(ledger)) :
          /\ "tampered" \notin DOMAIN ledger[getLedger(ledger)[k]].payload
          /\ ledger' = WriteThrough(ledger, getLedger(ledger), k)
          /\ result' = NoError
          /\ UNCHANGED <<program, now, nodeStates, groupStates, emitted,
                         broadcasts, input, output,
                   ledgerFile, requests,
                   chain, client>>

\* a caller of getLedger() changes the array it got: the array is not
\* this.ledger, which keeps its elements
CallerEditsArray ==
    /\ program = "core"
    /\ \E edit \in ArrayEdits :
          /\ EditArray(getLedger(ledger), edit) # getLedger(ledger)
          /\ Return(NoError)

\* SolitonRegistry with a caller that changes what getLedger() returned
NextCaller ==
    \/ CoreLogPhasePacket
    \/ CoreVerifyIntegrity
    \/ CoreGetLedger
    \/ Tick
    \/ CallerWritesEntry
    \/ CallerEditsArray
InitCaller == Init /\ program = "core"
SpecCaller == InitCaller /\ [][NextCaller]_vars

\* the enhanced server, and its registry called directly
InitServer == Init /\ program \in {"server", "registry"}
NextServer ==
    \/ \E body \in GeometricBodies : PostAggregateGeometric(body)
    \/ RegistryLogPhasePacket
    \/ PostRevoke
    \/ GetLedgerGeometric
    \/ \E node_id \in Nodes : GetPhase(node_id)
    \/ \E group_id \in Groups : GetCoherence(group_id)
    \/ Tick
SpecServer == InitServer /\ [][NextServer]_vars

\* the /aggregate route of the server and ledger.json
InitAggregate ==
    /\ program = "aggregate"
    /\ now = 0
    /\ ledger = <<>>
    /\ nodeStates = EmptyMap
    /\ groupStates = EmptyMap
    /\ emitted = <<>>
    /\ broadcasts = <<>>
    /\ result = NoError
    /\ input = NoCall
    /\ output = NoCall
    /\ ledgerFile = NoFile
    /\ requests = [r \in Requests |-> NoRequest]
    /\ chain = <<>>
    /\ client = NoClient
NextAggregate ==
    \/ \E r \in Requests, body \in AggregateBodies : PostAggregate(r, body)
    \/ \E r \in Requests, failed \in BOOLEAN : ReadFileResumes(r, failed)
    \/ \E r \in Requests, failed \in BOOLEAN : WriteFileResumes(r, failed)
    \/ Tick
SpecAggregate == InitAggregate /\ [][NextAggregate]_vars

\* SolitonRegistry alone
\* new NorthStarLedger() at any Date.now()
InitNorthStar ==
    /\ program = "northstar"
    /\ now \in 0 .. 7
    /\ ledger = <<>>
    /\ nodeStates = EmptyMap
    /\ groupStates = EmptyMap
    /\ emitted = <<>>
    /\ broadcasts = <<>>
    /\ result = NoError
    /\ input = NoCall
    /\ output = NoCall
    /\ ledgerFile = NoFile
    /\ requests = [r \in Requests |-> NoRequest]
    /\ chain = createGenesis(<<>>, now)
    /\ client = NoClient
NextNorthStar ==
    \/ \E claim \in SovereigntyClaims, phaseState \in PhaseStates :
          AddEntry(claim, phaseState)
    \/ VerifyChain
SpecNorthStar == InitNorthStar /\ [][NextNorthStar]_vars

\* the client module loaded, no call made
InitClient ==
    /\ program = "client"
    /\ now = 0
    /\ ledger = <<>>
    /\ nodeStates = EmptyMap
    /\ groupStates = EmptyMap
    /\ emitted = <<>>
    /\ broadcasts = <<>>
    /\ result = NoError
    /\ input = NoCall
    /\ output = NoCall
    /\ ledgerFile = NoFile
    /\ requests = [r \in Requests |-> NoRequest]
    /\ chain = <<>>
    /\ client = ClientLoaded
NextClient ==
    \/ \E c \in Callers, route \in {"/aggregate", "/revoke"} : RemoteCall(c, route)
    \/ \E c \in Callers, nodes \in discoverRegistryNodes :
          DiscoveryResumes(c, nodes)
    \/ \E c \in Callers : FetchResumes(c)
SpecClient == InitClient /\ [][NextClient]_vars

InitCore == Init /\ program = "core"
NextCore ==
    \/ CoreLogPhasePacket
    \/ CoreVerifyIntegrity
    \/ CoreGetLedger
    \/ Tick
SpecCore == InitCore /\ [][NextCore]_vars

\* ------------------------------------------- the functions on their own
\* the arguments the functions are called with.  Triads are in thousandths,
\* around every threshold of the flags; synchrony values lie around each
\* threshold of the interpretation; member angles are quarter turns, below 0
\* and beyond 2*PI included; phase states have any quarter-turn angle and
\* phase, amplitude 0 included; band weights are 0, 1 and 2 for any of the
\* keys eegToPhaseState reads and for one it does not; the codex operators
\* get the canonical constants and whole numbers of every size up to theirs,
\* and vectors of two small components.
FnInputs ==
    LET JoltValues == {-2000, -1000, -701, -300, 0, 500, 700, 1000, 1700}
        VhitzeeValues ==
            {Finite(v) : v \in {-50000, -3001, -3000, -1000, 0, 999, 3000,
                                3001, 50000}}
            \cup {Infinity, NegInfinity}
        Triads == [jolt : JoltValues, observer : JoltValues,
                   vhitzee : VhitzeeValues]
        SynchronyValues == {0, 1, 399, 400, 401, 599, 600, 601, 799, 800, 801,
                            999, 1000}
        MemberStates ==
            UNION {[keys -> [theta : (-4) .. 9, amplitude : {Unit}, phase : {0},
                             timestamp : {0}]] :
                      keys \in {{}, {"n1"}, {"n1", "n2"}, {"n1", "n2", "n3"}}}
        TriadStates == [theta : 0 .. 4, amplitude : {0, 500, Unit, 2000},
                        phase : {0, 1}, timestamp : {0}]
        BandMappings ==
            UNION {[keys -> 0 .. 2] :
                      keys \in SUBSET {"alpha", "theta", "gamma", "beta"}}
        CodexValues ==
            {CANONICAL.PI, CANONICAL.PHI, CANONICAL.C}
            \cup {Number(n) : n \in {0, 1, 2, 10, 100, 1000, 20000, 3000000}}
        CodexVectors == [1 .. 2 -> {CANONICAL.PI, CANONICAL.PHI, Number(100)}]
    IN  {[fn |-> "computeVitality", triad |-> t] : t \in Triads}
        \cup {[fn |-> "computeTriad", state |-> st] : st \in TriadStates}
        \cup {[fn |-> "createPhasePacket", triad |-> t] : t \in Triads}
        \cup {[fn |-> "eegToPhaseState", bands |-> bands] : bands \in BandMappings}
        \cup {[fn |-> "cubicInverse", x |-> x] : x \in CodexValues}
        \cup {[fn |-> "sovereignDeflate", x |-> x] : x \in CodexValues}
        \cup {[fn |-> "run_trajectory", theta_0 |-> t, n_cycles |-> n,
                delta_theta |-> d] : t \in 0 .. 3, n \in 0 .. 4, d \in 0 .. 2}
        \cup {[fn |-> "sovereignDistance", a |-> a, b |-> b] :
                  a \in CodexVectors, b \in CodexVectors}
        \cup {[fn |-> "interpretCoherence", synchrony |-> x] :
                  x \in SynchronyValues}
        \cup {[fn |-> "updateGroupCoherence", states |-> m] : m \in MemberStates}

FnReturn(value) ==
    /\ output = NoCall
    /\ output' = value
    /\ UNCHANGED <<program, now, ledger, nodeStates, groupStates, emitted,
                   broadcasts, result, input,
                   ledgerFile, requests,
                   chain, client>>

\* TrigState.jolt(), .observer() and .vhitzee() of the Python dataclass
TrigState_jolt(self) == self.amplitude * SinQ(self.theta + self.phase)
TrigState_observer(self) == self.amplitude * CosQ(self.theta + self.phase)
TrigState_vhitzee(self) ==
    LET cos_val == TrigState_observer(self)
    IN  IF cos_val = 0
        THEN (IF TrigState_jolt(self) > 0 THEN Infinity ELSE NegInfinity)
        ELSE Finite(DivTrunc(TrigState_jolt(self) * Unit, cos_val))

\* TrigFPTProcessor(epsilon_base = 0.0417, damping = 0.1), no cycle run yet
DampingThousandths == 100
TrigFPTProcessor ==
    [epsilon |-> EpsilonBaseTenThousandths, damping |-> DampingThousandths,
     history |-> <<>>]

\* abs(v) > 2.0 for a tangent, abs(np.inf) included
AbsOverTwo(v) == IF IsFinite(v) THEN Abs(v[2]) > 2 * Unit ELSE TRUE

\* the local variable amplitude at the end of process_cycle, after the
\* feedback correction has multiplied it
CorrectedAmplitude(self, state, amplitude) ==
    IF AbsOverTwo(TrigState_vhitzee(state))
    THEN (amplitude * (Unit - self.damping)) \div Unit
    ELSE IF Abs(TrigState_observer(state)) > 700
         THEN (amplitude * (10 * Unit + self.epsilon)) \div (10 * Unit)
         ELSE amplitude

\* process_cycle(theta, amplitude): state is built from the arguments before
\* the correction, the correction changes the local amplitude and nothing
\* else, and state is what history gets and what is returned
process_cycle(self, theta, amplitude) ==
    LET state == [theta |-> theta, amplitude |-> amplitude, phase |-> 0]
        corrected == CorrectedAmplitude(self, state, amplitude)
    IN  [state |-> state,
         self |-> [self EXCEPT !.history = Append(@, state)]]

\* the loop of run_trajectory, with remaining cycles to go
RECURSIVE TrajectoryLoop(_, _, _, _, _, _)
TrajectoryLoop(self, theta, amplitude, remaining, delta_theta, trajectory) ==
    IF remaining = 0 THEN [trajectory |-> trajectory, self |-> self]
    ELSE LET cycle == process_cycle(self, theta, amplitude)
         IN  TrajectoryLoop(cycle.self, theta + delta_theta,
                            cycle.state.amplitude, remaining - 1, delta_theta,
                            Append(trajectory, cycle.state))
run_trajectory(self, theta_0, n_cycles, delta_theta) ==
    TrajectoryLoop(self, theta_0, Unit, n_cycles, delta_theta, <<>>)

\* run_trajectory on a new processor: the trajectory and the history after it
CallRunTrajectory ==
    /\ input.fn = "run_trajectory"
    /\ LET run == run_trajectory(TrigFPTProcessor, input.theta_0,
                                 input.n_cycles, input.delta_theta)
       IN  FnReturn([fn |-> input.fn, trajectory |-> run.trajectory,
                     history |-> run.self.history])

\* computeTriad(state) of the two processors, and TrigState.trinary_state()
CallComputeTriad ==
    /\ input.fn = "computeTriad"
    /\ FnReturn([fn |-> input.fn,
                 core |-> computeTriad(input.state),
                 server |-> processor_computeTriad(input.state),
                 python |-> [jolt |-> TrigState_jolt(input.state),
                             observer |-> TrigState_observer(input.state),
                             vhitzee |-> TrigState_vhitzee(input.state)]])

\* the packet the server's createPhasePacket returns once computeTriad has
\* given it the triad
CallCreatePhasePacket ==
    /\ input.fn = "createPhasePacket"
    /\ FnReturn([fn |-> input.fn,
                 server |-> PhasePacket(eegToPhaseState([alpha |-> 0], 0),
                                        input.triad,
                                        processor_computeVitality(input.triad),
                                        "n1", SessionId, SnhDigest, Undefined, 0)])

\* processor.eegToPhaseState(bands)
CallEegToPhaseState ==
    /\ input.fn = "eegToPhaseState"
    /\ FnReturn([fn |-> input.fn, server |-> eegToPhaseState(input.bands, now)])

\* cubicInverse(cubicCorrect(x))
CallCubicInverse ==
    /\ input.fn = "cubicInverse"
    /\ FnReturn([fn |-> input.fn,
                 y |-> cubicCorrect(input.x),
                 recovered |-> cubicInverse(cubicCorrect(input.x))])

\* sovereignDeflate of CUBIC.x (the mocha test) and of SOVEREIGN.x (runTests)
CallSovereignDeflate ==
    /\ input.fn = "sovereignDeflate"
    /\ FnReturn([fn |-> input.fn,
                 ofCubic |-> sovereignDeflate(cubicCorrect(input.x)),
                 ofSovereign |->
                     sovereignDeflate(cubicCorrect(meshInflate(input.x)))])

\* each variant's transform of a, what sovereignDeflate recovers from it, its
\* distance from itself, and the two distances of the sovereign vectors of
\* a and b
CallSovereignDistance ==
    /\ input.fn = "sovereignDistance"
    /\ LET a_sov == sovereignTransformVector(input.a)
           b_sov == sovereignTransformVector(input.b)
           a_codex == codex_sovereignTransformVector(input.a)
       IN  FnReturn([fn |-> input.fn,
                     ts |-> [transformed |-> a_sov,
                             recovered |-> sovereignDeflateVector(a_sov),
                             self |-> sovereignDistance(a_sov, a_sov),
                             distance |-> sovereignDistance(a_sov, b_sov)],
                     js |-> [transformed |-> a_codex,
                             recovered |-> sovereignDeflateVector(a_codex),
                             self |-> codex_sovereignDistance(a_codex, a_codex),
                             distance |-> codex_sovereignDistance(a_sov, b_sov)]])

\* computeVitality(triad) of TrigonometricProcessor and of the server's processor
CallComputeVitality ==
    /\ input.fn = "computeVitality"
    /\ FnReturn([fn |-> input.fn,
                 core |-> computeVitality(input.triad),
                 server |-> processor_computeVitality(input.triad)])

\* interpretCoherence(synchrony) and the server's status assignment
CallInterpretCoherence ==
    /\ input.fn = "interpretCoherence"
    /\ FnReturn([fn |-> input.fn,
                 core |-> interpretCoherence(input.synchrony),
                 server |-> registry_status(input.synchrony)])

\* updateGroupCoherence('g1') of either registry over the node states given,
\* with no group state stored and the ledger as constructed
CallUpdateGroupCoherence ==
    /\ input.fn = "updateGroupCoherence"
    /\ FnReturn([fn |-> input.fn,
                 core |-> updateGroupCoherence("g1", input.states, EmptyMap,
                                               <<createGenesisEntry(0)>>, 0, "r1"),
                 server |-> registry_updateGroupCoherence("g1", input.states,
                                                          EmptyMap, 0)])

InitFn ==
    /\ program = "functions"
    /\ now = 0
    /\ ledger = <<>>
    /\ nodeStates = EmptyMap
    /\ groupStates = EmptyMap
    /\ emitted = <<>>
    /\ broadcasts = <<>>
    /\ result = NoError
    /\ input \in FnInputs
    /\ output = NoCall
    /\ ledgerFile = NoFile
    /\ requests = [r \in Requests |-> NoRequest]
    /\ chain = <<>>
    /\ client = NoClient
NextFn ==
    \/ CallComputeVitality
    \/ CallRunTrajectory
    \/ CallSovereignDistance
    \/ CallSovereignDeflate
    \/ CallCubicInverse
    \/ CallEegToPhaseState
    \/ CallCreatePhasePacket
    \/ CallComputeTriad
    \/ CallInterpretCoherence
    \/ CallUpdateGroupCoherence
SpecFn == InitFn /\ [][NextFn]_vars

\* =================================================================== claims
IsObservation(entry) == entry.entry_id[1] = "phase"
IsCoherence(entry) == entry.entry_type = "GROUP_COHERENCE"
\* index of the last observation entry of node n, -1 when there is none
LastObservation(l, n) ==
    LET S == {i \in Indices(l) : IsObservation(At(l, i))
                                   /\ At(l, i).payload.node_id = n}
    IN  IF S = {} THEN -1 ELSE CHOOSE i \in S : \A j \in S : j <= i

\* C1: in every reachable state of either registry, each entry after the
\* first names the hash of the entry before it as prev_hash, and its hash is
\* the digest of its own entry_id, entry_type, created_at, payload, prev_hash.
C1_HashChain ==
    \A i \in Indices(ledger) :
        i > 0 => /\ At(ledger, i).prev_hash = At(ledger, i - 1).hash
                 /\ At(ledger, i).hash = computeHash(At(ledger, i))

\* a core ledger holding an observation and its coherence entry, after a
\* refused submission
C1_Witness ==
    /\ program = "core"
    /\ Len(ledger) >= 4
    /\ \E i \in Indices(ledger) : IsCoherence(At(ledger, i))
    /\ result = "Consent validation failed"

\* C2: every step leaves the ledger a prefix of what it becomes: no entry is
\* removed and no appended entry changes.
C2_AppendOnly ==
    [][/\ Len(ledger') >= Len(ledger)
       /\ \A i \in 1 .. Len(ledger) : ledger'[i] = ledger[i]]_vars

\* two grouped observations on the core ledger: four entries behind genesis
C2_Witness ==
    /\ program = "core"
    /\ Len(ledger) = 5
    /\ result = NoError

\* C3: verifyIntegrity() is true in every state the core registry reaches.
C3_VerifyIntegrityHolds ==
    program = "core" => verifyIntegrity(ledger).ok

\* an ungrouped and a grouped observation, both verified
C3_Witness ==
    /\ program = "core"
    /\ Len(ledger) = 4
    /\ \E i \in Indices(ledger) :
          IsObservation(At(ledger, i)) /\ At(ledger, i).payload.group_id = Undefined
    /\ verifyIntegrity(ledger).ok

\* the ledger with the payload of entry i replaced, stored hashes as they were
AlterPayload(l, i, payload) == [l EXCEPT ![i + 1].payload = payload]

\* C4: altering the payload of any one entry, hashes left alone, makes
\* verifyIntegrity false with that entry's index as the first one flagged,
\* the entry at index 0 included.
C4_TamperDetectedAtIndex ==
    program = "core" =>
        \A i \in Indices(ledger) :
            verifyIntegrity(AlterPayload(ledger, i, Altered(At(ledger, i).payload)))
                = [ok |-> FALSE, index |-> i]

\* C5: an acknowledged revocation request appends exactly one revocation
\* entry to the hash-chained ledger and leaves every earlier entry as it was.
C5_RevokeAppendsOne ==
    [][(PostRevoke /\ result' = "revoked") =>
          /\ Len(ledger') = Len(ledger) + 1
          /\ ledger'[Len(ledger')].entry_type = "PHASE_REVOCATION"
          /\ \A i \in 1 .. Len(ledger) : ledger'[i] = ledger[i]]_vars

\* the headers the consent gate is to refuse
Inadmissible(snh) ==
    \/ snh.neurodata_class = "raw"
    \/ snh.scope \cap {"group_resonance_aggregate", "research_aggregate"} = {}

\* the errors logPhasePacket rejects a submission with
Rejections == {"Consent validation failed",
               "Raw neurodata cannot be logged to registry"}

\* C6: logPhasePacket rejects a submission with an error exactly for a header
\* that is raw or whose scope has none of the two allowed scopes; a rejected
\* call leaves the ledger, both state maps and the emitted events as they
\* were, any other is accepted: its observation is appended.
C6_ConsentGate ==
    [][\A c \in Submissions, rnd1 \in RandomSuffixes, rnd2 \in RandomSuffixes,
         throwing \in ListenerFaults :
          (/\ program = "core"
           /\ logPhasePacket(createPhasePacket(c.state, c.node_id, SessionId,
                                               SnhDigest, c.group_id, now),
                             c.snh, rnd1, rnd2, throwing))
          => IF Inadmissible(c.snh)
             THEN /\ result' \in Rejections
                  /\ UNCHANGED <<ledger, nodeStates, groupStates>>
                  /\ emitted' = <<>>
             ELSE /\ result' \notin Rejections
                  /\ Len(ledger') > Len(ledger)
                  /\ IsObservation(ledger'[Len(ledger) + 1])]_vars

\* a raw submission refused after an observation was logged
C6_Witness ==
    /\ program = "core"
    /\ result = "Raw neurodata cannot be logged to registry"
    /\ Len(ledger) >= 2
    /\ DOMAIN nodeStates # {}

\* C7: the node-state map has an entry exactly for the nodes with an accepted
\* observation, and it is the state of the node's latest accepted observation.
C7_NodeStateIsLatest ==
    /\ DOMAIN nodeStates \subseteq Nodes
    /\ \A n \in Nodes :
          LET i == LastObservation(ledger, n)
          IN  IF i = -1 THEN n \notin DOMAIN nodeStates
              ELSE /\ n \in DOMAIN nodeStates
                   /\ nodeStates[n].theta = At(ledger, i).payload.theta
                   /\ nodeStates[n].amplitude = At(ledger, i).payload.amplitude
                   /\ nodeStates[n].timestamp = At(ledger, i).created_at

\* a node observed twice at different angles, and a refusal after that
C7_Witness ==
    /\ \E n \in Nodes, i \in Indices(ledger) :
          /\ IsObservation(At(ledger, i))
          /\ At(ledger, i).payload.node_id = n
          /\ i < LastObservation(ledger, n)
          /\ At(ledger, i).payload.theta # nodeStates[n].theta
    /\ result \in Rejections

\* C8: a registry holds exactly one entry when constructed, the genesis entry
\* with the all-zero prev_hash; entry 0 stays that entry and no later entry
\* has the all-zero prev_hash.
C8_GenesisAtConstruction ==
    /\ Len(ledger) >= 1
    /\ NumObservations(ledger) = 0 => Len(ledger) = 1
    /\ ~IsObservation(At(ledger, 0))
    /\ At(ledger, 0).prev_hash = ZeroHash
    /\ \A i \in Indices(ledger) : i > 0 => At(ledger, i).prev_hash # ZeroHash

\* C9: an accepted observation with a group_id appends the observation entry
\* and, chained right behind it, a GROUP_COHERENCE entry of that group; one
\* without group_id appends one entry and leaves the group states alone.
C9_ObservationCoherencePair ==
    [][Len(ledger') > Len(ledger) =>
          LET obs == ledger'[Len(ledger) + 1]
          IN  /\ IsObservation(obs)
              /\ IF obs.payload.group_id # Undefined
                 THEN /\ Len(ledger') = Len(ledger) + 2
                      /\ IsCoherence(ledger'[Len(ledger) + 2])
                      /\ ledger'[Len(ledger) + 2].payload.group_id
                             = obs.payload.group_id
                      /\ ledger'[Len(ledger) + 2].prev_hash = obs.hash
                 ELSE /\ Len(ledger') = Len(ledger) + 1
                      /\ groupStates' = groupStates]_vars

\* the nodes whose latest observation in l carries group g
AttributedTo(l, g) ==
    {n \in Nodes : LastObservation(l, n) # -1
                   /\ At(l, LastObservation(l, n)).payload.group_id = g}
\* the member count a stored group state reports
NodeCount(groupState) ==
    IF "node_count" \in DOMAIN groupState THEN groupState.node_count
    ELSE MapSize(groupState.node_states)

\* C10: the coherence stored for group g by an accepted observation counts
\* exactly the nodes whose latest accepted observation carried group_id g,
\* and its member snapshot holds those nodes only.
C10_GroupScopedAggregation ==
    [][(Len(ledger') > Len(ledger)
        /\ ledger'[Len(ledger) + 1].payload.group_id # Undefined) =>
          LET g == ledger'[Len(ledger) + 1].payload.group_id
              members == AttributedTo(ledger', g)
          IN  /\ g \in DOMAIN groupStates'
              /\ NodeCount(groupStates'[g]) = Cardinality(members)
              /\ "node_states" \in DOMAIN groupStates'[g]
                    => DOMAIN groupStates'[g].node_states = members]_vars

\* C11: a call of logPhasePacket either returns with the whole transaction
\* written (the observation entry, the node state and, for a grouped packet,
\* the group state and the coherence entry) or ends in an error with the
\* ledger and both state maps as they were, whatever its listeners do.
C11_NoPartialMutation ==
    [][\A c \in Submissions, rnd1 \in RandomSuffixes, rnd2 \in RandomSuffixes,
         throwing \in ListenerFaults :
          (/\ program = "core"
           /\ logPhasePacket(createPhasePacket(c.state, c.node_id, SessionId,
                                               SnhDigest, c.group_id, now),
                             c.snh, rnd1, rnd2, throwing))
          => IF result' = NoError
             THEN /\ Len(ledger') = Len(ledger)
                                      + (IF c.group_id = Undefined THEN 1 ELSE 2)
                  /\ MapHas(nodeStates', c.node_id)
                  /\ nodeStates'[c.node_id] = c.state
                  /\ c.group_id # Undefined => MapHas(groupStates', c.group_id)
             ELSE UNCHANGED <<ledger, nodeStates, groupStates>>]_vars

\* C12: whatever the order in which submissions reach a registry, no two
\* entries of its ledger name the same predecessor: the prev_hash values of
\* distinct entries differ.
C12_OnePredecessorEach ==
    \A i \in Indices(ledger), j \in Indices(ledger) :
        i # j => At(ledger, i).prev_hash # At(ledger, j).prev_hash

\* a grouped observation of n2 appended behind a grouped observation of n1
C12_Witness ==
    /\ program = "core"
    /\ Len(ledger) = 5
    /\ At(ledger, 1).payload.node_id = "n1"
    /\ At(ledger, 3).payload.node_id = "n2"
    /\ IsCoherence(At(ledger, 4))

\* C13: no two entries of a ledger have the same entry_id, with Date.now()
\* and Math.random() free to return a value they returned before.
C13_EntryIdUnique ==
    \A i \in Indices(ledger), j \in Indices(ledger) :
        i # j => At(ledger, i).entry_id # At(ledger, j).entry_id

\* C14: every event a call of logPhasePacket emits carries an entry that is
\* in the ledger when the listener gets it, every entry the call appends is
\* emitted exactly once, and a rejected call emits none; the server
\* broadcasts a PHASE_UPDATE only for a packet whose entry it has appended.
C14_PublishAfterCommit ==
    [][/\ program = "core" =>
            /\ emitted' # emitted =>
                  \A m \in DOMAIN emitted' :
                      \E k \in 1 .. emitted'[m].ledger_length :
                          /\ k <= Len(ledger')
                          /\ ledger'[k] = emitted'[m].entry
            /\ \A k \in (Len(ledger) + 1) .. Len(ledger') :
                  Cardinality({m \in DOMAIN emitted' :
                                  emitted'[m].entry = ledger'[k]}) = 1
            /\ (ledger' = ledger /\ result' \in Rejections) => emitted' = <<>>
       /\ broadcasts' # broadcasts =>
            /\ Len(ledger') = Len(ledger) + 1
            /\ Len(broadcasts') = Len(broadcasts) + 1
            /\ broadcasts'[Len(broadcasts')].node_id
                   = ledger'[Len(ledger')].payload.node_id]_vars

\* C15: for every triad with finite jolt and observer, and vhitzee finite or
\* infinite, computeVitality returns a value from 0.5 to 1.5, the server's
\* processor returns the same value, and with vhitzee infinite the value is
\* 0.6*min(|observer|,1) + 0.4*min(|jolt|,1) - 0.3 + 0.5 clamped, the
\* penalty being exactly 0.3.
C15_VitalityRange ==
    output.fn = "computeVitality" =>
        LET triad == input.triad
            base == (600 * Min(Abs(triad.observer), Unit)
                     + 400 * Min(Abs(triad.jolt), Unit)) \div Unit
        IN  /\ output.core >= 500
            /\ output.core <= 1500
            /\ output.server = output.core
            /\ ~IsFinite(triad.vhitzee) =>
                  /\ AbsOver10Capped(triad.vhitzee) = 300
                  /\ output.core = Max(500, Min(1500, base - 300 + 500))

\* a triad with vhitzee -Infinity whose vitality is above the lower clamp
C15_Witness ==
    /\ output.fn = "computeVitality"
    /\ input.triad.vhitzee = NegInfinity
    /\ input.triad.observer = 1700
    /\ output.core = 800
    /\ output.server = 800

\* the group state and the coherence payload a call of updateGroupCoherence
\* left behind
StoredByCall(out) ==
    {out.core.groupStates["g1"], out.server["g1"],
     out.core.ledger[Len(out.core.ledger)].payload}

C17_StatusThresholds ==
    output.fn = "interpretCoherence" =>
        LET x == input.synchrony
        IN  /\ output.server = output.core
            /\ output.core = "COLLECTIVE_COIL_ENGAGED" <=> x > 800
            /\ output.core = "HIGH_COHERENCE" <=> (x > 600 /\ x <= 800)
            /\ output.core = "MODERATE_COHERENCE" <=> (x > 400 /\ x <= 600)
            /\ output.core = "LOW_COHERENCE" <=> x <= 400

\* the status at exactly 0.8
C17_Witness ==
    /\ output.fn = "interpretCoherence"
    /\ input.synchrony = 800
    /\ output.core = "HIGH_COHERENCE"
    /\ output.server = "HIGH_COHERENCE"

\* C18: no GROUP_COHERENCE entry and no group state has node_count 0, and
\* updateGroupCoherence run with no node state known appends nothing and
\* stores no group state.
C18_NoEmptyAggregate ==
    /\ \A i \in Indices(ledger) :
          IsCoherence(At(ledger, i)) => At(ledger, i).payload.node_count >= 1
    /\ \A g \in DOMAIN groupStates : NodeCount(groupStates[g]) >= 1
    /\ \A g \in Groups :
          IF program = "core"
          THEN updateGroupCoherence(g, EmptyMap, groupStates, ledger, now, "r1")
                   = [groupStates |-> groupStates, ledger |-> ledger]
          ELSE registry_updateGroupCoherence(g, EmptyMap, groupStates, now)
                   = groupStates

\* the first grouped observation a core registry accepts: one member
C18_Witness ==
    /\ program = "core"
    /\ Len(ledger) = 3
    /\ IsCoherence(At(ledger, 2))
    /\ At(ledger, 2).payload.node_count = 1
    /\ MapSize(nodeStates) = 1
    /\ DOMAIN groupStates = {"g2"}

\* C19: nothing a caller does with what getLedger() returned, to the array
\* or to an entry in it, changes the ledger the registry holds or what
\* verifyIntegrity returns afterwards.
C19_GetLedgerDefensiveCopy ==
    [][(CallerWritesEntry \/ CallerEditsArray) =>
          /\ ledger' = ledger
          /\ verifyIntegrity(ledger').ok = verifyIntegrity(ledger).ok]_vars

\* C20: GET /phase/:node_id answers 404 exactly when the ledger has no
\* observation of that node, GET /coherence/:group_id answers 404 exactly
\* when it has no observation carrying that group id; otherwise they answer
\* with the state the map holds, which for a node is the state of its latest
\* observation; neither changes the ledger or a state map.
C20_Lookups ==
    [][/\ \A n \in Nodes : GetPhase(n) =>
            /\ UNCHANGED <<ledger, nodeStates, groupStates>>
            /\ result' = "Node not found" <=> LastObservation(ledger, n) = -1
            /\ LastObservation(ledger, n) # -1 =>
                  LET last == At(ledger, LastObservation(ledger, n)).payload
                      body == GetPhaseResponse(nodeStates, n)
                  IN  /\ result' = NoError
                      /\ body.code = 200
                      /\ body.body.node_id = n
                      /\ body.body.state.theta = last.theta
                      /\ body.body.state.amplitude = last.amplitude
                      /\ body.body.state.timestamp = nodeStates[n].timestamp
       /\ \A g \in Groups : GetCoherence(g) =>
            /\ UNCHANGED <<ledger, nodeStates, groupStates>>
            /\ result' = "Group not found" <=>
                  ~\E i \in Indices(ledger) : At(ledger, i).payload.group_id = g
            /\ MapHas(groupStates, g) =>
                  LET body == GetCoherenceResponse(groupStates, g)
                  IN  /\ result' = NoError
                      /\ body.code = 200
                      /\ body.body.group_id = g
                      /\ body.body.node_count = groupStates[g].node_count
                      /\ body.body.status = groupStates[g].status]_vars

\* n1 was observed at angle 0 under g2 and is found; g1 is not
C20_Witness ==
    /\ program = "registry"
    /\ MapHas(nodeStates, "n1")
    /\ nodeStates["n1"].theta = 0
    /\ DOMAIN groupStates = {"g2"}
    /\ result = "Group not found"

LastCoherence(l, g) ==
    LET S == {i \in Indices(l) : IsCoherence(At(l, i))
                                   /\ At(l, i).payload.group_id = g}
    IN  IF S = {} THEN -1 ELSE CHOOSE i \in S : \A j \in S : j <= i

\* C21: the state maps of SolitonRegistry can be rebuilt from its entries:
\* a node is in nodeStates exactly when the ledger has an observation of it,
\* with the theta and amplitude of the last one; a group is in groupStates
\* exactly when the ledger has a GROUP_COHERENCE entry for it, with the
\* mean_theta, phase_variance and synchrony_index of the last one.
C21_DerivedStateRebuildable ==
    program = "core" =>
      /\ \A n \in Nodes :
            LET i == LastObservation(ledger, n)
            IN  /\ MapHas(nodeStates, n) <=> i # -1
                /\ i # -1 =>
                      /\ nodeStates[n].theta = At(ledger, i).payload.theta
                      /\ nodeStates[n].amplitude = At(ledger, i).payload.amplitude
      /\ DOMAIN nodeStates \subseteq Nodes
      /\ DOMAIN groupStates \subseteq Groups
      /\ \A g \in Groups :
            LET i == LastCoherence(ledger, g)
            IN  /\ MapHas(groupStates, g) <=> i # -1
                /\ i # -1 =>
                      LET payload == At(ledger, i).payload
                      IN  /\ groupStates[g].mean_theta = payload.mean_theta
                          /\ groupStates[g].phase_variance = payload.phase_variance
                          /\ groupStates[g].synchrony_index =
                                payload.synchrony_index

\* g1 was computed twice, the second time from two nodes a quarter turn apart
C21_Witness ==
    /\ program = "core"
    /\ MapHas(groupStates, "g1")
    /\ Cardinality({i \in Indices(ledger) :
                      IsCoherence(At(ledger, i))
                      /\ At(ledger, i).payload.group_id = "g1"}) = 2
    /\ groupStates["g1"].phase_variance > 0
    /\ Cardinality(DOMAIN nodeStates) = 2

\* the body has a raw_eeg or an eeg_samples key
ContainsRawEeg(body) == "raw_eeg" \in DOMAIN body \/ "eeg_samples" \in DOMAIN body

\* C22: a step of a POST /aggregate request whose body contains raw_eeg or
\* eeg_samples answers it 400 or 403 and leaves ledger.json as it was; and a
\* step that answers any request 400 or 403 leaves ledger.json as it was.
C22_RawEegRejected ==
    [][\A r \in Requests :
          requests'[r] # requests[r] =>
            /\ ContainsRawEeg(requests'[r].body) =>
                  /\ requests'[r].pc = "done"
                  /\ requests'[r].response.code \in {400, 403}
                  /\ ledgerFile' = ledgerFile
            /\ (requests'[r].pc = "done"
                    /\ requests'[r].response.code \in {400, 403}) =>
                  ledgerFile' = ledgerFile]_vars

\* the request was answered { status: 'witnessed', entry_id }
Witnessed(request) == request.pc = "done" /\ request.response.code = 200
\* the entry the handler of a witnessed request pushed
OwnEntry(request) == request.ledger[Len(request.ledger)]
IsPrefix(old, new) == Len(old) <= Len(new) /\ SubSeq(new, 1, Len(old)) = old

\* C23: whatever the interleaving of POST /aggregate handlers, a write keeps
\* every entry ledger.json held; once every request is answered, each
\* witnessed request finds its own entry in ledger.json at the entry_id it
\* was given; and no two witnessed requests were given the same entry_id.
C23_AppendOnlyLedgerFile ==
    [][/\ IsPrefix(ledgerFile.entries, ledgerFile'.entries)
       /\ (\A r \in Requests : requests'[r].pc \in {"none", "done"}) =>
             \A r \in Requests : Witnessed(requests'[r]) =>
                LET k == requests'[r].response.body.entry_id + 1
                IN  /\ k <= Len(ledgerFile'.entries)
                    /\ ledgerFile'.entries[k] = OwnEntry(requests'[r])
       /\ \A r1, r2 \in Requests :
             (r1 # r2 /\ Witnessed(requests'[r1]) /\ Witnessed(requests'[r2])) =>
                requests'[r1].response.body.entry_id
                    # requests'[r2].response.body.entry_id]_vars

\* the triads a call of computeTriad returned
TriadsReturned(out) == {out.core, out.server, out.python}

C25_OppositionFlags ==
    output.fn = "createPhasePacket" =>
        LET flags == output.server.opposition_flags
            vhitzee == output.server.triad.vhitzee
            observer == output.server.triad.observer
            \* |vhitzee| > 3 and |vhitzee| < 1, |Infinity| above every number
            over3 == IF vhitzee[1] = "inf" THEN TRUE ELSE Abs(vhitzee[2]) > 3000
            under1 == IF vhitzee[1] = "inf" THEN FALSE ELSE Abs(vhitzee[2]) < 1000
        IN  /\ output.server.triad = input.triad
            /\ flags.near_singularity <=> vhitzee[1] = "inf"
            /\ flags.high_stress <=> over3
            /\ flags.near_singularity => flags.high_stress
            /\ flags.recommendation = "protect" <=> flags.high_stress
            /\ ~flags.high_stress =>
                  /\ flags.recommendation = "boost_ok" <=>
                        (Abs(observer) > 700 /\ under1)
                  /\ flags.recommendation \in {"boost_ok", "neutral"}

\* a packet whose vhitzee is -Infinity next to an observer above 0.7
C25_Witness ==
    /\ output.fn = "createPhasePacket"
    /\ input.triad.vhitzee = NegInfinity
    /\ input.triad.observer = 1000
    /\ output.server.opposition_flags =
          [high_stress |-> TRUE, near_singularity |-> TRUE,
           recommendation |-> "protect"]

\* C26: the state eegToPhaseState returns for non-negative band weights has
\* 0 <= theta < 2*PI (four quarter turns) and phase 0.
C26_ThetaReduced ==
    output.fn = "eegToPhaseState" =>
        /\ output.server.theta >= 0
        /\ output.server.theta < 4
        /\ output.server.phase = 0

\* the error texts of the 400 answers of POST /aggregate/geometric
ValidationErrors == {"EEG bands required", "node_id and session_id required"}

\* C27: POST /aggregate/geometric with a body that lacks a bands object, a
\* node_id or a session_id is answered 400 and leaves the ledger, nodeStates
\* and groupStates as they were and broadcasts nothing; a body that has all
\* three is not answered 400.
C27_GeometricValidation ==
    [][\A body \in GeometricBodies : PostAggregateGeometric(body) =>
          IF body.bands = NoBands \/ body.node_id = Undefined
                                  \/ body.session_id = Undefined
          THEN /\ result' \in ValidationErrors
               /\ UNCHANGED <<ledger, nodeStates, groupStates, broadcasts>>
          ELSE result' \notin ValidationErrors]_vars

\* the server answered a body without node_id or session_id 400 at the last
\* clock reading: nothing is in the ledger and nothing was broadcast
C27_Witness ==
    /\ program = "server"
    /\ result = "node_id and session_id required"
    /\ now = MaxClock
    /\ broadcasts = <<>>
    /\ ledger = <<>>

\* a recovers b: they differ by less than a millionth of |b|, the tolerance
\* of the tests (1e-10) at the resolution of the eight-digit arithmetic
Recovers(a, b) ==
    Less(Magnitude(Minus(a, b)), Times(Magnitude(b), Normalize(1, -6)))

\* C28: for each canonical constant x, cubicInverse(cubicCorrect(x)) recovers x.
C28_CubicInverseInverts ==
    (output.fn = "cubicInverse"
        /\ input.x \in {CANONICAL.PI, CANONICAL.PHI, CANONICAL.C}) =>
        Recovers(output.recovered, input.x)

C30_SovereignReversible ==
    output.fn = "sovereignDistance" =>
        /\ output.js.transformed = output.ts.transformed
        /\ \A i \in DOMAIN input.a :
              /\ Recovers(output.ts.recovered[i], input.a[i])
              /\ Recovers(output.js.recovered[i], input.a[i])
        /\ output.ts.self.m = 0
        /\ output.js.self.m = 0
        /\ \/ output.js.distance = output.ts.distance
           \/ Recovers(output.js.distance, output.ts.distance)

\* C31: along a trajectory the cycle after one with |vhitzee| > 2 runs with
\* the amplitude times (1 - damping), the cycle after one with |observer| >
\* 0.7 (and no such vhitzee) with the amplitude times (1 + epsilon); history
\* holds the n states in cycle order; theta advances by delta_theta per cycle.
C31_FeedbackCarriedForward ==
    output.fn = "run_trajectory" =>
        LET trajectory == output.trajectory
        IN  /\ Len(output.history) = input.n_cycles
            /\ output.history = trajectory
            /\ \A i \in 1 .. Len(trajectory) :
                  trajectory[i].theta = input.theta_0 + (i - 1) * input.delta_theta
            /\ \A i \in 1 .. Len(trajectory) - 1 :
                  LET before == trajectory[i]
                      after == trajectory[i + 1].amplitude
                  IN  IF AbsOverTwo(TrigState_vhitzee(before))
                      THEN after = (before.amplitude * 900) \div 1000
                      ELSE Abs(TrigState_observer(before)) > 700 =>
                               after = (before.amplitude * 10417) \div 10000

\* C32: verifyChain returns true for every chain built by the constructor
\* and by addEntry alone.
C32_VerifyChainTrue ==
    output.fn = "verifyChain" => output.returned

\* C33: right after construction the chain holds exactly the genesis entry,
\* with index 0 and previousHash '0', whatever the geometry check gave.
C33_GenesisPresent ==
    (program = "northstar" /\ output = NoCall) =>
        /\ Len(chain) = 1
        /\ chain[1].index = 0
        /\ chain[1].previousHash = <<0>>
        /\ chain[1].claim.uei = 0

\* C34: addEntry returning false leaves the chain as it was, returning true
\* appends exactly one entry; and in every state chain[i].index = i (from 0),
\* chain[i].previousHash = chain[i-1].hash, and every entry passes
\* validateOctagonalGeometry.
ChainWellFormed(c) ==
    \A i \in 1 .. Len(c) :
        /\ c[i].index = i - 1
        /\ i > 1 => c[i].previousHash = c[i - 1].hash
        /\ validateOctagonalGeometry(c[i])
C34_AddEntryAllOrNothing ==
    /\ ChainWellFormed(chain)
    /\ [][/\ ChainWellFormed(chain')
          /\ output'.fn = "addEntry" =>
                IF output'.returned
                THEN /\ Len(chain') = Len(chain) + 1
                     /\ SubSeq(chain', 1, Len(chain)) = chain
                ELSE chain' = chain
          /\ output'.fn = "verifyChain" => chain' = chain]_vars
C34_Witness ==
    /\ output.fn = "addEntry"
    /\ output.returned
    /\ Len(chain) = MaxChain

\* C35: events are emitted in ledger order: of two entries a call of
\* logPhasePacket emits, the one with the lower ledger index is emitted first
\* (the observation entry of a grouped packet before its coherence entry).
C35_EmittedInLedgerOrder ==
    \A i, j \in DOMAIN emitted :
        i < j =>
            \A a, b \in 1 .. Len(ledger) :
                (ledger[a] = emitted[i].entry /\ ledger[b] = emitted[j].entry)
                    => a < b

\* C36: every deviation that enters phase_variance is the circular distance
\* between the node's theta and mean_theta, and lies in [0, PI], for any theta
\* a node state can hold.
CircularDistance(state, mean_theta) ==
    LET turn == (ThetaMilli(state) - mean_theta) % TwoPiMilli
    IN  Min(turn, TwoPiMilli - turn)
C36_DeviationIsCircularDistance ==
    (output.fn = "updateGroupCoherence" /\ DOMAIN input.states # {}) =>
        \A mean_theta \in {output.core.groupStates["g1"].mean_theta,
                            output.server["g1"].mean_theta} :
            \A n \in DOMAIN input.states :
                LET deviation == Deviation(input.states[n], mean_theta)
                IN  /\ deviation >= 0
                    /\ deviation <= PiMilli
                    /\ deviation = CircularDistance(input.states[n], mean_theta)

\* C37: the stored state of a group changes only in a step that accepts an
\* observation carrying that group's id; an accepted observation for g leaves
\* the stored state of every other group as it was.
GroupStateChanged(g) ==
    \/ MapHas(groupStates, g) # MapHas(groupStates', g)
    \/ /\ MapHas(groupStates, g)
       /\ MapHas(groupStates', g)
       /\ groupStates'[g] # groupStates[g]
C37_OnlyOwnGroupChanges ==
    [][\A g \in Groups :
          GroupStateChanged(g) =>
              /\ Len(ledger') > Len(ledger)
              /\ IsObservation(ledger'[Len(ledger) + 1])
              /\ ledger'[Len(ledger) + 1].payload.group_id = g]_vars
\* g2 was last computed from one node and g1, after it, from another theta
C37_Witness ==
    /\ MapHas(groupStates, "g1")
    /\ MapHas(groupStates, "g2")
    /\ groupStates["g1"].mean_theta # groupStates["g2"].mean_theta

\* C38: once cachedBaseUrl is set it never changes, every call that gets its
\* base URL after that gets the cached one, and discoverRegistryNodes is
\* called at most once per process, whatever the interleaving of the calls.
C38_BaseUrlCacheStable ==
    [][program = "client" =>
          /\ IsCached(client.cachedBaseUrl) =>
                /\ client'.cachedBaseUrl = client.cachedBaseUrl
                /\ \A c \in Callers :
                      (client'.calls[c] # client.calls[c]
                          /\ client'.calls[c].pc = "fetch") =>
                          client'.calls[c].base = client.cachedBaseUrl
          /\ client'.discoveries <= 1]_vars

====
